---- MODULE Spec2Model ----
(***************************************************************************)
(* A model of the secure_com session-establishment core: the clear-text   *)
(* and RSA-framed handshake of src/handshake.rs and src/encryption/mod.rs *)
(* over a byte transport, with the text conversions (split, trim, decimal *)
(* and hexadecimal formatting and parsing) and the RSA line framing of    *)
(* src/encryption/rsa_stream.rs computed as the code computes them.       *)
(*                                                                         *)
(* Text is a sequence of one-character strings.  A transport direction is *)
(* the sequence of characters written to it and not yet read.             *)
(***************************************************************************)
EXTENDS Integers, Sequences, FiniteSets, TLC

(***************************************************************************)
(* Characters and their byte values (ASCII).                               *)
(***************************************************************************)
NL == "\n"

Chars ==
    << "\n", " ", "(", ")", ",", ":", "?",
       "0", "1", "2", "3", "4", "5", "6", "7", "8", "9",
       "A", "B", "C", "D", "E", "F", "G", "H", "I", "J", "K", "L", "M",
       "N", "O", "P", "Q", "R", "S", "T", "U", "V", "W", "X", "Y", "Z",
       "_",
       "a", "b", "c", "d", "e", "f", "g", "h", "i", "j", "k", "l", "m",
       "n", "o", "p", "q", "r", "s", "t", "u", "v", "w", "x", "y", "z" >>

Codes ==
    << 10, 32, 40, 41, 44, 58, 63,
       48, 49, 50, 51, 52, 53, 54, 55, 56, 57,
       65, 66, 67, 68, 69, 70, 71, 72, 73, 74, 75, 76, 77,
       78, 79, 80, 81, 82, 83, 84, 85, 86, 87, 88, 89, 90,
       95,
       97, 98, 99, 100, 101, 102, 103, 104, 105, 106, 107, 108, 109,
       110, 111, 112, 113, 114, 115, 116, 117, 118, 119, 120, 121, 122 >>

CharSet == {Chars[i] : i \in 1..Len(Chars)}

CodeOf == [c \in CharSet |-> Codes[CHOOSE i \in 1..Len(Chars) : Chars[i] = c]]

\* The character of a byte; a byte outside the table reads as "?".
ChrOf(b) ==
    IF \E i \in 1..Len(Codes) : Codes[i] = b
    THEN Chars[CHOOSE i \in 1..Len(Codes) : Codes[i] = b]
    ELSE "?"

\* str::as_bytes of a text
AsBytes(s) == [i \in 1..Len(s) |-> CodeOf[s[i]]]

DigitChars == <<"0", "1", "2", "3", "4", "5", "6", "7", "8", "9">>
HexChars == DigitChars \o <<"a", "b", "c", "d", "e", "f">>

IsDigit(c) == \E i \in 1..10 : DigitChars[i] = c
DigitVal(c) == (CHOOSE i \in 1..10 : DigitChars[i] = c) - 1

\* char::to_digit(16): both letter cases are hexadecimal digits
IsHexDigit(c) == IsDigit(c) \/ c \in {"a", "b", "c", "d", "e", "f", "A", "B", "C", "D", "E", "F"}
HexVal(c) ==
    CASE IsDigit(c) -> DigitVal(c)
      [] c \in {"a", "A"} -> 10
      [] c \in {"b", "B"} -> 11
      [] c \in {"c", "C"} -> 12
      [] c \in {"d", "D"} -> 13
      [] c \in {"e", "E"} -> 14
      [] OTHER -> 15

(***************************************************************************)
(* str::trim, str::split_whitespace, str::split.                           *)
(***************************************************************************)
IsSpace(c) == c \in {" ", "\n", "\t", "\r"}

RECURSIVE TrimStart(_)
TrimStart(s) == IF s # <<>> /\ IsSpace(Head(s)) THEN TrimStart(Tail(s)) ELSE s

RECURSIVE TrimEnd(_)
TrimEnd(s) ==
    IF s # <<>> /\ IsSpace(s[Len(s)]) THEN TrimEnd(SubSeq(s, 1, Len(s) - 1)) ELSE s

Trim(s) == TrimEnd(TrimStart(s))

\* The first position of s that holds c, 0 when there is none.
IndexOf(s, c) ==
    IF \E i \in 1..Len(s) : s[i] = c
    THEN CHOOSE i \in 1..Len(s) : s[i] = c /\ \A j \in 1..(i - 1) : s[j] # c
    ELSE 0

FirstSpace(s) ==
    IF \E i \in 1..Len(s) : IsSpace(s[i])
    THEN CHOOSE i \in 1..Len(s) : IsSpace(s[i]) /\ \A j \in 1..(i - 1) : ~IsSpace(s[j])
    ELSE 0

\* str::split(c): at least one piece, empty pieces kept
RECURSIVE SplitOn(_, _)
SplitOn(s, c) ==
    LET i == IndexOf(s, c)
    IN  IF i = 0 THEN <<s>>
        ELSE <<SubSeq(s, 1, i - 1)>> \o SplitOn(SubSeq(s, i + 1, Len(s)), c)

\* str::split_whitespace: the non-empty runs of non-whitespace characters
RECURSIVE SplitWhitespace(_)
SplitWhitespace(s) ==
    LET t == TrimStart(s)
        j == FirstSpace(t)
    IN  IF t = <<>> THEN <<>>
        ELSE IF j = 0 THEN <<t>>
        ELSE <<SubSeq(t, 1, j - 1)>> \o SplitWhitespace(SubSeq(t, j, Len(t)))

(***************************************************************************)
(* Decimal text of a number (Display of BigUint) and its parse             *)
(* (BigUint::from_str): a non-empty run of decimal digits.                 *)
(***************************************************************************)
RECURSIVE ToDec(_)
ToDec(n) == IF n < 10 THEN <<DigitChars[n + 1]>> ELSE ToDec(n \div 10) \o <<DigitChars[(n % 10) + 1]>>

IsDec(s) == s # <<>> /\ \A i \in 1..Len(s) : IsDigit(s[i])

RECURSIVE DecVal(_)
DecVal(s) == IF s = <<>> THEN 0 ELSE DecVal(SubSeq(s, 1, Len(s) - 1)) * 10 + DigitVal(s[Len(s)])

\* The number a decimal text denotes, reduced modulo m > 0 (the numbers lines
\* carry are BigUints, and only their residues enter the RSA transform)
RECURSIVE DecMod(_, _)
DecMod(s, m) ==
    IF s = <<>> THEN 0
    ELSE (DecMod(SubSeq(s, 1, Len(s) - 1), m) * 10 + DigitVal(s[Len(s)])) % m

\* Concatenation of a sequence of texts (by halves)
RECURSIVE Concat(_)
Concat(ss) ==
    IF ss = <<>> THEN <<>>
    ELSE IF Len(ss) = 1 THEN ss[1]
    ELSE Concat(SubSeq(ss, 1, Len(ss) \div 2)) \o Concat(SubSeq(ss, Len(ss) \div 2 + 1, Len(ss)))

(***************************************************************************)
(* BigUint arithmetic used by the RSA transform.                           *)
(***************************************************************************)
\* BigUint multiplication under a modulus m, for a, b < m.  The product is
\* formed at once where it fits the integers of the checker, and from the
\* two parts of b (for m below 2^19) where it does not.
MulMod(a, b, m) ==
    IF m <= 46340 THEN (a * b) % m
    ELSE LET high == (((a * (b \div 256)) % m) * 256) % m
             low == (a * (b % 256)) % m
         IN  (high + low) % m

\* BigUint::modpow; the caller checks that the modulus is not zero
RECURSIVE ModPow(_, _, _)
ModPow(b, e, m) ==
    IF e = 0 THEN 1 % m
    ELSE LET h == ModPow(b, e \div 2, m)
             sq == MulMod(h, h, m)
         IN  IF e % 2 = 1 THEN MulMod(sq, b % m, m) ELSE sq

\* BigUint::bits: the length of the binary representation, 0 for 0
RECURSIVE Bits(_)
Bits(n) == IF n = 0 THEN 0 ELSE 1 + Bits(n \div 2)

\* BigUint::to_bytes_be: big-endian bytes without leading zeros, [0] for 0
RECURSIVE ToBytesBE(_)
ToBytesBE(v) == IF v < 256 THEN <<v>> ELSE ToBytesBE(v \div 256) \o <<v % 256>>

\* BigUint::from_bytes_be
RECURSIVE FromBytesBE(_)
FromBytesBE(bs) ==
    IF bs = <<>> THEN 0 ELSE FromBytesBE(SubSeq(bs, 1, Len(bs) - 1)) * 256 + bs[Len(bs)]

(***************************************************************************)
(* RSA keys (src/encryption/rsa.rs).  A key pair is [e, d, n]; the public *)
(* view is [e, n], the private view [d, n].                                *)
(***************************************************************************)
public_key(keys) == [e |-> keys.e, n |-> keys.n]
private_key(keys) == [d |-> keys.d, n |-> keys.n]

NoKey == [e |-> 0, n |-> 0]
NoKeys == [e |-> 0, d |-> 0, n |-> 0]

\* max_message_size with the bit length rounded up to whole bytes
max_message_size_rounded_up(pk) == (Bits(pk.n) + 7) \div 8

\* PublicKey::max_message_size = (bits(n) - 1) / 8, for n > 0
max_message_size(pk) == (Bits(pk.n) - 1) \div 8

\* RSAMessage::encrypt of Decrypted(m) and RSAMessage::decrypt of Encrypted(c)
rsa_encrypt(m, pk) == ModPow(m, pk.e, pk.n)
rsa_decrypt(c, sk) == ModPow(c, sk.d, sk.n)

\* Display for PublicKey: "({n}, {e})"
PublicKeyDisplay(pk) == <<"(">> \o ToDec(pk.n) \o <<",", " ">> \o ToDec(pk.e) \o <<")">>

\* PublicKey::from_str: PublicKey::from under catch_unwind.  The text is
\* trimmed and split on whitespace; the first two pieces must parse as
\* decimal numbers, n first.  A missing piece or a failed parse panics
\* inside catch_unwind and comes back as Err.
PublicKeyFromStr(s) ==
    LET split == SplitWhitespace(Trim(s))
    IN  IF Len(split) >= 2 /\ IsDec(split[1]) /\ IsDec(split[2])
        THEN [ok |-> TRUE, key |-> [e |-> DecVal(split[2]), n |-> DecVal(split[1])]]
        ELSE [ok |-> FALSE, key |-> NoKey]

(***************************************************************************)
(* RSAWriter (src/encryption/rsa_stream.rs).  One write call takes at     *)
(* most max_message_size bytes, and writes the decimal ciphertext and a   *)
(* newline to the sink.  Write::write_all repeats the call until the      *)
(* buffer is drained and fails with WriteZero when a call consumes        *)
(* nothing.  A modulus of 0 panics (the subtraction in max_message_size   *)
(* overflows, or it wraps and modpow divides by zero).                     *)
(***************************************************************************)
\* The bytes one RSAWriter::write call consumes
RSAWriteTake(pk, buf) ==
    IF Len(buf) < max_message_size(pk) THEN Len(buf) ELSE max_message_size(pk)

\* The line one RSAWriter::write call writes to the sink for the bytes it took
RSAWriteLine(pk, bytes) == ToDec(rsa_encrypt(FromBytesBE(bytes), pk)) \o <<NL>>

\* One RSAWriter::write(buf): the bytes taken, the integer they make
\* big-endian (the plaintext that is encrypted), the line written to the sink
\* and the count returned.  The modulus 0 panics before anything is written.
RSAWriter_write(pk, buf) ==
    IF pk.n = 0 THEN [res |-> "panic", index |-> 0, big_uint |-> 0, written |-> <<>>]
    ELSE LET bytes == SubSeq(buf, 1, RSAWriteTake(pk, buf))
         IN  [res |-> "ok", index |-> Len(bytes), big_uint |-> FromBytesBE(bytes),
              written |-> RSAWriteLine(pk, bytes)]

\* Write::write_all(buf) on an RSAWriter: one write call per run of
\* max_message_size bytes, until the buffer is drained
RSAWriteAll(pk, buf) ==
    LET size == max_message_size(pk)
        calls == (Len(buf) + size - 1) \div size
        To(k) == IF k * size < Len(buf) THEN k * size ELSE Len(buf)
    IN  IF buf = <<>> THEN [res |-> "ok", out |-> <<>>]
        ELSE IF pk.n = 0 THEN [res |-> "panic", out |-> <<>>]
        ELSE IF RSAWriteTake(pk, buf) = 0
        THEN [res |-> "err", out |-> RSAWriteLine(pk, <<>>)]
        ELSE [res |-> "ok",
              out |-> Concat([k \in 1..calls |->
                                 RSAWriteLine(pk, SubSeq(buf, (k - 1) * size + 1, To(k)))])]

\* write!/writeln! on an RSAWriter: Write::write_fmt hands each piece of the
\* format (literal or argument) to write_all, stopping at the first failure.
RECURSIVE RSAWriteFmt(_, _)
RSAWriteFmt(pk, pieces) ==
    IF pieces = <<>> THEN [res |-> "ok", out |-> <<>>]
    ELSE LET first == RSAWriteAll(pk, AsBytes(Head(pieces)))
         IN  IF first.res # "ok" THEN first
             ELSE LET rest == RSAWriteFmt(pk, Tail(pieces))
                  IN  [res |-> rest.res, out |-> first.out \o rest.out]

(***************************************************************************)
(* RSAReader::read (src/encryption/rsa_stream.rs).  The call reads lines  *)
(* from the source until a read of the source returns 0, decrypts each    *)
(* and appends its bytes to the queue; then it drains the queue.          *)
(***************************************************************************)
\* The lines BufRead::read_line yields over src until end of source: each up
\* to and including its newline, the last one possibly without.
SourceLines(src) ==
    LET IsEnd(i) == src[i] = NL
        ends == SelectSeq([i \in 1..Len(src) |-> i], IsEnd)
        last == IF ends = <<>> THEN 0 ELSE ends[Len(ends)]
        whole == [k \in 1..Len(ends) |->
                     SubSeq(src, IF k = 1 THEN 1 ELSE ends[k - 1] + 1, ends[k])]
    IN  IF last < Len(src) THEN Append(whole, SubSeq(src, last + 1, Len(src))) ELSE whole

\* RSAMessage::from_encrypted(line.trim()) unwraps BigUint::from_str
RSALineParses(line) == IsDec(Trim(line))

\* The bytes one line decrypts to
RSALineBytes(sk, line) == ToBytesBE(rsa_decrypt(DecMod(Trim(line), sk.n), sk))

RSADecryptLines(sk, lines) == Concat([k \in 1..Len(lines) |-> RSALineBytes(sk, lines[k])])

\* One RSAReader::read over everything the source holds when it reports its
\* end: a panic when a line is no decimal number, else the decrypted bytes.
RSAReadToEnd(sk, src) ==
    LET lines == SourceLines(src)
    IN  IF \E i \in 1..Len(lines) : ~RSALineParses(lines[i])
        THEN [res |-> "panic", bytes |-> <<>>]
        ELSE [res |-> "ok", bytes |-> RSADecryptLines(sk, lines)]

\* One RSAReader::read(buf) on a reader whose queue is `buffer`, over a
\* source that holds src and then reports its end.  Whatever the queue holds,
\* the call first reads the source line by line to its end and appends the
\* decrypted bytes to the queue; then it moves up to len(buf) bytes from the
\* front of the queue into buf.
RSAReader_read(sk, src, buffer, buf_len) ==
    LET lines == SourceLines(src)
        queue == buffer \o RSADecryptLines(sk, lines)
        index == IF Len(queue) < buf_len THEN Len(queue) ELSE buf_len
    IN  IF \E i \in 1..Len(lines) : ~RSALineParses(lines[i])
        THEN [res |-> "panic", n |-> 0, copied |-> <<>>, buffer |-> buffer,
              source_read |-> TRUE, taken |-> src]
        ELSE [res |-> "ok", n |-> index, copied |-> SubSeq(queue, 1, index),
              buffer |-> SubSeq(queue, index + 1, Len(queue)),
              source_read |-> TRUE, taken |-> src]

\* BufReader::new(rsa_reader).read_line: the first fill of the buffer is one
\* RSAReader::read, which returns everything the source held (the buffer of
\* 8192 bytes is larger than any run of this model); the line ends at the
\* first newline, or at the end of the data when the next read returns 0.
\* What follows the line stays in the BufReader, which the step drops.
\* read_line fails on a line that is not UTF-8: the texts of the model are
\* ASCII, and a byte above 127 is taken as such a failure.
SecureReadLine(sk, src) ==
    LET r == RSAReadToEnd(sk, src)
        i == IndexOf(r.bytes, CodeOf[NL])
        bytes == IF i = 0 THEN r.bytes ELSE SubSeq(r.bytes, 1, i)
    IN  IF r.res = "panic" THEN [res |-> "panic", line |-> <<>>]
        ELSE IF \E k \in 1..Len(bytes) : bytes[k] > 127 THEN [res |-> "err", line |-> <<>>]
        ELSE [res |-> "ok", line |-> [k \in 1..Len(bytes) |-> ChrOf(bytes[k])]]

(***************************************************************************)
(* AES key manager serialisation (src/encryption/aes.rs).  A manager is   *)
(* [key_value, size].  The BigUint between the key bytes and the text is  *)
(* carried as its sequence of base-16 digits: a key is wider than the     *)
(* integers of the checker.                                                *)
(***************************************************************************)
NoManager == [key_value |-> <<>>, size |-> 0]

RECURSIVE StripLeading(_, _)
StripLeading(s, z) == IF s # <<>> /\ Head(s) = z THEN StripLeading(Tail(s), z) ELSE s

\* The base-16 digits of BigUint::from_bytes_be(bytes), most significant
\* first, without leading zeros (empty for the number 0)
BytesNibbles(bytes) ==
    [i \in 1..(2 * Len(bytes)) |->
        IF i % 2 = 1 THEN bytes[(i + 1) \div 2] \div 16 ELSE bytes[i \div 2] % 16]

BigUintOfBytes(bytes) == StripLeading(BytesNibbles(bytes), 0)

\* BigUint::to_bytes_be of a number given by its base-16 digits
BigUintToBytes(nibbles) ==
    LET padded == IF Len(nibbles) % 2 = 1 THEN <<0>> \o nibbles ELSE nibbles
    IN  IF nibbles = <<>> THEN <<0>>
        ELSE [i \in 1..(Len(padded) \div 2) |-> padded[2 * i - 1] * 16 + padded[2 * i]]

\* format!("{:x}", n): lowercase, no leading zeros, "0" for 0
LowerHex(nibbles) ==
    IF nibbles = <<>> THEN <<"0">> ELSE [i \in 1..Len(nibbles) |-> HexChars[nibbles[i] + 1]]

\* BigUint::from_str_radix(s, 16): a non-empty run of hexadecimal digits
IsHex(s) == s # <<>> /\ \A i \in 1..Len(s) : IsHexDigit(s[i])
ParseHex(s) == StripLeading([i \in 1..Len(s) |-> HexVal(s[i])], 0)

\* AESManager::parsable_string
parsable_string(manager) == LowerHex(BigUintOfBytes(manager.key_value))

\* The match on bytes.len() * 8 in AESManager::from_str
KeySizeOfBytes(bytes) == Len(bytes) * 8

\* A variant of AESManager::from_str that builds a manager from any number of
\* bytes
AESManagerFromStr_any_length(s) ==
    IF ~IsHex(s) THEN [ok |-> FALSE, manager |-> NoManager]
    ELSE [ok |-> TRUE, manager |-> [key_value |-> BigUintToBytes(ParseHex(s)),
                                    size |-> KeySizeOfBytes(BigUintToBytes(ParseHex(s)))]]

\* AESManager::from_str
AESManagerFromStr(s) ==
    IF ~IsHex(s) THEN [ok |-> FALSE, manager |-> NoManager]
    ELSE LET bytes == BigUintToBytes(ParseHex(s))
         IN  IF KeySizeOfBytes(bytes) \in {128, 192, 256}
             THEN [ok |-> TRUE, manager |-> [key_value |-> bytes, size |-> KeySizeOfBytes(bytes)]]
             ELSE [ok |-> FALSE, manager |-> NoManager]

\* The key bytes generate_key may draw: every bit is random.  The model draws
\* the leading bytes from KeyLeads (a full byte; a byte with a zero high
\* nibble; a zero byte; eight zero bytes) and repeats one byte after them.
KeyLeads == { <<171>>, <<10>>, <<0>>, <<0, 0, 0, 0, 0, 0, 0, 0>> }

\* AESManager::new(key_size)
AESManagers(key_size) ==
    { [key_value |-> [i \in 1..(key_size \div 8) |-> IF i <= Len(lead) THEN lead[i] ELSE 205],
       size |-> key_size] : lead \in KeyLeads }

\* The managers of the three key sizes
AllManagers == AESManagers(128) \cup AESManagers(192) \cup AESManagers(256)

(***************************************************************************)
(* AESManager::encrypt and AESManager::decrypt (src/encryption/aes.rs).   *)
(* The block cipher is that of the aes crate; the model keeps of it that  *)
(* encrypt_block is, for each key, a permutation of the 16-byte blocks    *)
(* that depends on every key byte, and decrypt_block its inverse: here a  *)
(* rotation of the block by one place and a shift of each byte by a key   *)
(* byte and its place.                                                     *)
(***************************************************************************)
KeyByte(key_value, j) == key_value[((j - 1) % Len(key_value)) + 1]

encrypt_block(key_value, block) ==
    [j \in 1..16 |-> (block[(j % 16) + 1] + KeyByte(key_value, j) + j) % 256]

decrypt_block(key_value, block) ==
    [i \in 1..16 |->
        LET j == IF i = 1 THEN 16 ELSE i - 1
        IN  (block[j] + 512 - KeyByte(key_value, j) - j) % 256]

\* The i-th run of 16 bytes of a message, filled up with zero bytes
PaddedBlock(message, i) ==
    [j \in 1..16 |-> IF (i - 1) * 16 + j <= Len(message) THEN message[(i - 1) * 16 + j] ELSE 0]

\* A variant of AESManager::encrypt that leaves out a last block that is not
\* full
AESManager_encrypt_full_blocks(manager, message) ==
    [i \in 1..(Len(message) \div 16) |->
        encrypt_block(manager.key_value, PaddedBlock(message, i))]

\* AESManager::encrypt: len / 16 blocks, one more when bytes remain
AESManager_encrypt(manager, message) ==
    LET total == Len(message) \div 16 + (IF Len(message) % 16 > 0 THEN 1 ELSE 0)
    IN  [i \in 1..total |-> encrypt_block(manager.key_value, PaddedBlock(message, i))]

\* AESManager::decrypt: the bytes of every block decrypted, in order
AESManager_decrypt(manager, blocks) ==
    Concat([i \in 1..Len(blocks) |-> decrypt_block(manager.key_value, blocks[i])])

(***************************************************************************)
(* AESWriter and AESReader (src/encryption/aes_stream.rs).                 *)
(***************************************************************************)
\* A variant of AESWriter::write that leaves a last block that is not full to
\* the next call
AESWriter_write_full_blocks(manager, buf) ==
    [n |-> Len(buf),
     out |-> Concat(AESManager_encrypt_full_blocks(manager, buf))]

\* AESWriter::write: every block of encrypt(buf) goes to the inner writer;
\* the call reports all of buf as written
AESWriter_write(manager, buf) ==
    [n |-> Len(buf),
     out |-> Concat(AESManager_encrypt(manager, buf))]

\* write!(writer, "{}", message): Write::write_all, which makes no call for
\* an empty buffer and one call otherwise, AESWriter::write taking all of it
AESWriter_write_all(manager, buf) ==
    IF buf = <<>> THEN <<>> ELSE AESWriter_write(manager, buf).out

\* A variant of the pop loop that copies zero bytes like any other
PopLoop_zero_copied(queue, buf_len) ==
    IF Len(queue) >= buf_len
    THEN [copied |-> SubSeq(queue, 1, buf_len), left |-> SubSeq(queue, buf_len + 1, Len(queue))]
    ELSE [copied |-> queue, left |-> <<>>]

\* The pop loop of AESReader::read over the queue: bytes are copied until
\* buf_len are copied, the queue is empty, or a zero byte is popped (and not
\* copied).  Gives the bytes copied and the queue left.
PopLoop(queue, buf_len) ==
    LET z == IndexOf(queue, 0)
        nonzero == IF z = 0 THEN Len(queue) ELSE z - 1
    IN  IF nonzero >= buf_len
        THEN [copied |-> SubSeq(queue, 1, buf_len),
              left |-> SubSeq(queue, buf_len + 1, Len(queue))]
        ELSE IF z = 0 THEN [copied |-> queue, left |-> <<>>]
        ELSE [copied |-> SubSeq(queue, 1, nonzero),
              left |-> SubSeq(queue, z + 1, Len(queue))]

\* What one read of the inner reader into the 16-byte array can return,
\* over the bytes it still holds.  A slice returns up to 16 of them, 0 at its
\* end.  A stream (a socket, a pipe) may return fewer than are on their way:
\* a piece of the block, and the rest on the next read.
PieceLens == {5, 11}

InnerReads(source, inner) ==
    LET whole == IF Len(inner) < 16 THEN Len(inner) ELSE 16
    IN  IF source = "slice" THEN {whole}
        ELSE {whole} \cup { k \in PieceLens : k < Len(inner) }

\* AESReader::read(buf) with buf.len() = buf_len, over the bytes the inner
\* reader still holds, of which its one read returns the first `got`, and
\* the reader's internal_buffer.  A read of 0 bytes returns Ok(0); otherwise
\* the 16-byte array (zero beyond what was read) is decrypted and queued, and
\* the pop loop fills buf.
AESReader_read(manager, inner, got, internal_buffer, buf_len) ==
    LET array == [j \in 1..16 |-> IF j <= got THEN inner[j] ELSE 0]
        popped == PopLoop(internal_buffer \o AESManager_decrypt(manager, <<array>>), buf_len)
    IN  IF got = 0
        THEN [n |-> 0, copied |-> <<>>, inner |-> inner, internal_buffer |-> internal_buffer]
        ELSE [n |-> Len(popped.copied), copied |-> popped.copied,
              inner |-> SubSeq(inner, got + 1, Len(inner)),
              internal_buffer |-> popped.left]

(***************************************************************************)
(* Nonces (generate_nonce): the decimal renderings of nonce_size random   *)
(* bytes, concatenated.  The model draws the bytes as a repeated pair.    *)
(***************************************************************************)
NonceBytePairs == {<<1, 23>>, <<200, 0>>}

NonceText(bytes) == Concat([i \in 1..Len(bytes) |-> ToDec(bytes[i])])

generate_nonce(nonce_size) ==
    { NonceText([i \in 1..nonce_size |-> IF i % 2 = 1 THEN p[1] ELSE p[2]]) : p \in NonceBytePairs }

(***************************************************************************)
(* Key pairs of the handshake.  RSAKeysGenerator::new(512).generate_keys() *)
(* returns a triple that passes RSAKeys::valid; the model draws from       *)
(* triples of 11 and 12 bits (p = 61, q = 53 and p = 37, q = 41, d the     *)
(* inverse of e modulo lcm(p - 1, q - 1)), whose max_message_size is 1.    *)
(***************************************************************************)
\* A variant of RSAKeys::valid that accepts every triple
valid_unchecked(keys) == TRUE

\* RSAKeys::valid: the probe 2 survives encrypt then decrypt
valid(keys) == rsa_decrypt(rsa_encrypt(2, public_key(keys)), private_key(keys)) = 2

HandshakeKeys ==
    { k \in { [e |-> 17, d |-> 413, n |-> 3233], [e |-> 7, d |-> 103, n |-> 1517] } : valid(k) }

(***************************************************************************)
(* RSAMessage (src/encryption/rsa.rs): Decrypted(v) or Encrypted(v).       *)
(***************************************************************************)
Decrypted(v) == [variant |-> "Decrypted", v |-> v]
Encrypted(v) == [variant |-> "Encrypted", v |-> v]

\* A variant of RSAMessage::encrypt that transforms either kind of message
RSAMessage_encrypt_any(msg, pk) == Encrypted(rsa_encrypt(msg.v, pk))

\* RSAMessage::encrypt: a Decrypted message is transformed, an Encrypted one
\* is returned as it is
RSAMessage_encrypt(msg, pk) ==
    IF msg.variant = "Decrypted" THEN Encrypted(rsa_encrypt(msg.v, pk)) ELSE msg

\* RSAMessage::decrypt: an Encrypted message is transformed, a Decrypted one
\* is returned as it is
RSAMessage_decrypt(msg, sk) ==
    IF msg.variant = "Encrypted" THEN Decrypted(rsa_decrypt(msg.v, sk)) ELSE msg

\* RSAKeys::new: Ok(keys) when the triple passes valid, Err(InvalidRSAKey)
\* otherwise.  With a modulus of 0 modpow panics inside valid.
RSAKeys_new(e, d, n) ==
    LET keys == [e |-> e, d |-> d, n |-> n]
    IN  IF n = 0 THEN [res |-> "panic", keys |-> NoKeys]
        ELSE IF valid(keys) THEN [res |-> "ok", keys |-> keys]
        ELSE [res |-> "InvalidRSAKey", keys |-> NoKeys]

(***************************************************************************)
(* RSAKeysGenerator (src/encryption/generator.rs).                         *)
(***************************************************************************)
\* The key size of the generator of the library calls, in bits
KeySizeBits == 8

RECURSIVE Pow2(_)
Pow2(k) == IF k = 0 THEN 1 ELSE 2 * Pow2(k - 1)

RECURSIVE Gcd(_, _)
Gcd(a, b) == IF b = 0 THEN a ELSE Gcd(b, a % b)

Lcm(a, b) == (a \div Gcd(a, b)) * b

\* generate_candidate_prime: key_size / 2 random bits with the top bit and
\* the lowest bit set
CandidatePrimes(key_size) ==
    { p \in Pow2(key_size \div 2 - 1)..(Pow2(key_size \div 2) - 1) : p % 2 = 1 }

\* number - 1 = d * 2^r with d odd: the r and the d of is_prime_probabilistic
RECURSIVE TwoPower(_)
TwoPower(t) == IF t % 2 = 0 THEN 1 + TwoPower(t \div 2) ELSE 0

RECURSIVE OddPart(_)
OddPart(t) == IF t % 2 = 0 THEN OddPart(t \div 2) ELSE t

\* One round of the witness loop of is_prime_probabilistic with the base a:
\* TRUE when the round goes on to the next base, FALSE when it returns false
RECURSIVE SquaresReach(_, _, _)
SquaresReach(x, rounds, number) ==
    IF rounds = 0 THEN FALSE
    ELSE LET sq == ModPow(x, 2, number)
         IN  sq = number - 1 \/ SquaresReach(sq, rounds - 1, number)

WitnessPasses(a, number) ==
    LET x == ModPow(a, OddPart(number - 1), number)
    IN  x = 1 \/ x = number - 1 \/ SquaresReach(x, TwoPower(number - 1) - 1, number)

\* is_prime_probabilistic(number, k) may return true: the number is odd and
\* every base drawn from [2, number - 2) passes; the draws are random and may
\* repeat, so one passing base is enough for true to be a possible result.
is_prime_probabilistic(number) ==
    /\ number % 2 = 1
    /\ \E a \in 2..(number - 3) : WitnessPasses(a, number)

\* generate_prime_number: a candidate that the test lets through
PrimeNumbers(key_size) == { p \in CandidatePrimes(key_size) : is_prime_probabilistic(p) }

\* is_prime: trial division by every n from 2 to the square root
is_prime(number) == \A n \in 2..number : n * n <= number => number % n # 0

\* The results is_prime_probabilistic(number, k) can give for k >= 1.  An odd
\* number below 5 leaves gen_range the empty range [2, number - 2), on which
\* it panics; for 1 the loop that halves number - 1 = 0 never ends.  Otherwise
\* the call returns false as soon as a drawn base fails and true when every
\* drawn base passes, and the draws may repeat.
is_prime_probabilistic_results(number) ==
    IF number % 2 = 0 THEN {"false"}
    ELSE IF number = 1 THEN {"loops"}
    ELSE IF number - 2 <= 2 THEN {"panic"}
    ELSE { IF WitnessPasses(a, number) THEN "true" ELSE "false" : a \in 2..(number - 3) }

\* The remainder of BigInt: truncated, with the sign of the dividend
BigIntRem(x, m) == IF x >= 0 THEN x % m ELSE 0 - ((0 - x) % m)

\* Option<BigInt>
None == [some |-> FALSE, v |-> 0]
Some(v) == [some |-> TRUE, v |-> v]

\* egcd(a, b, x, y) for a, b >= 0: the value returned and the x and y it sets
RECURSIVE egcd(_, _)
egcd(a, b) ==
    IF a = 0 THEN [gcd |-> b, x |-> 0, y |-> 1]
    ELSE LET r == egcd(b % a, a)
         IN  [gcd |-> r.gcd, x |-> r.y - (b \div a) * r.x, y |-> r.x]

\* modulo_inverse without the test g != 1
modulo_inverse_gcd_unchecked(a, m) == Some(BigIntRem(BigIntRem(egcd(a, m).x, m) + m, m))

\* modulo_inverse(a, m) for a >= 0, m >= 1
modulo_inverse(a, m) ==
    IF egcd(a, m).gcd # 1 THEN None
    ELSE Some(BigIntRem(BigIntRem(egcd(a, m).x, m) + m, m))

\* generate_keys_unchecked: n = p * q, z = lcm(p - 1, q - 1), e random in
\* [2, z) with gcd(e, z) = 1, d = modulo_inverse(e, z).unwrap().  The two primes are
\* drawn independently and may be equal.
generate_keys_unchecked(key_size) ==
    { [e |-> t[3], d |-> modulo_inverse(t[3], Lcm(t[1] - 1, t[2] - 1)).v, n |-> t[1] * t[2]] :
        t \in { u \in PrimeNumbers(key_size) \X PrimeNumbers(key_size)
                        \X (2..Pow2(key_size)) :
                    /\ u[3] < Lcm(u[1] - 1, u[2] - 1)
                    /\ Gcd(u[3], Lcm(u[1] - 1, u[2] - 1)) = 1 } }

\* generate_keys: generate_keys_unchecked again and again until valid() holds
generate_keys(key_size) == { keys \in generate_keys_unchecked(key_size) : valid(keys) }

(***************************************************************************)
(* The frames and the steps of the handshake (src/encryption/mod.rs).     *)
(* A step that reads is given the line read_line returned.                 *)
(***************************************************************************)
\* Variants of the steps below with a check left out or an order changed; the
\* properties at the end of the module are tried against them.
receive_ack_unchecked(start_nonce, line) == TRUE

client_repeat_unchecked(server_nonce, line) == TRUE

encryption_successful_unchecked(line) == TRUE

receive_and_repeat_unchecked(my_nonce, line) ==
    LET split == SplitWhitespace(line)
    IN  IF Len(split) < 2 THEN [res |-> "err", pieces |-> <<>>]
        ELSE [res |-> "ok", pieces |-> <<split[2], <<NL>>>>]

receive_public_key_any_prefix(line) ==
    LET split == SplitOn(Trim(line), ":")
    IN  IF Len(split) < 2 THEN [res |-> "panic", key |-> NoKey]
        ELSE IF PublicKeyFromStr(split[2]).ok
             THEN [res |-> "ok", key |-> PublicKeyFromStr(split[2]).key]
             ELSE [res |-> "err", key |-> NoKey]

\* The steps of a client that sends its public key before it has read the
\* acknowledgement
client_steps_key_before_ack ==
    << "handshake_start", "send_public_key", "receive_ack", "receive_public_key",
       "secure_handshake_start", "receive_and_repeat", "encryption_successful",
       "begin_aes_encryption_client" >>

server_steps_key_sent_first ==
    << "server_ack", "send_public_key", "receive_public_key", "secure_server_ack",
       "client_repeat_correct", "write_success", "get_aes_key" >>

HANDSHAKE_START_PHRASE == <<"C", "O", "M", "_", "B", "E", "G", "I", "N">>
SECRET_HANDSHAKE_START_PHRASE == <<"S", "E", "C", "O", "P", "_", "B", "E", "G", "I", "N">>
RSA_PREFIX == <<"R", "S", "A">>
AES_KEY_PREFIX == <<"A", "E", "S", "_", "K", "E", "Y">>
SUCCESS == <<"S", "U", "C", "C", "E", "S", "S">>

\* unsecure::handshake_start: writeln!(writer, "{} {}", phrase, nonce)
handshake_start_frame(start_nonce) ==
    HANDSHAKE_START_PHRASE \o <<" ">> \o start_nonce \o <<NL>>

\* unsecure::server_ack on the line read: split[0] panics on a line without
\* a token, split[1] on COM_BEGIN without a nonce; any other first token
\* writes nothing and returns Ok(()).
unsecure_server_ack(line) ==
    LET split == SplitWhitespace(line)
    IN  IF Len(split) = 0 THEN [res |-> "panic", out |-> <<>>]
        ELSE IF split[1] # HANDSHAKE_START_PHRASE THEN [res |-> "no", out |-> <<>>]
        ELSE IF Len(split) < 2 THEN [res |-> "panic", out |-> <<>>]
        ELSE [res |-> "ok", out |-> split[2] \o <<NL>>]

\* unsecure::receive_ack: Ok(line.trim() == start_nonce)
receive_ack(start_nonce, line) == Trim(line) = start_nonce

\* unsecure::send_public_key: writeln!(writer, "RSA:{}", key)
send_public_key_frame(key) == RSA_PREFIX \o <<":">> \o PublicKeyDisplay(key) \o <<NL>>

\* unsecure::receive_public_key on the line read: the trimmed line is split
\* on ':'; a first piece other than RSA is an error, a missing second piece
\* panics at split[1], and the second piece goes to PublicKey::from_str.
receive_public_key(line) ==
    LET split == SplitOn(Trim(line), ":")
    IN  IF split[1] # RSA_PREFIX THEN [res |-> "err", key |-> NoKey]
        ELSE IF Len(split) < 2 THEN [res |-> "panic", key |-> NoKey]
        ELSE IF PublicKeyFromStr(split[2]).ok
             THEN [res |-> "ok", key |-> PublicKeyFromStr(split[2]).key]
             ELSE [res |-> "err", key |-> NoKey]

\* secure::handshake_start: writeln!(writer, "{} {}", phrase, my_nonce)
secure_handshake_start_pieces(my_nonce) ==
    <<SECRET_HANDSHAKE_START_PHRASE, <<" ">>, my_nonce, <<NL>>>>

\* secure::server_ack on the line read: Ok(false) and nothing written when
\* the first token is not SECOP_BEGIN, else the challenge "{client} {server}".
secure_server_ack(server_nonce, line) ==
    LET split == SplitWhitespace(line)
    IN  IF Len(split) = 0 THEN [res |-> "panic", pieces |-> <<>>]
        ELSE IF split[1] # SECRET_HANDSHAKE_START_PHRASE THEN [res |-> "no", pieces |-> <<>>]
        ELSE IF Len(split) < 2 THEN [res |-> "panic", pieces |-> <<>>]
        ELSE [res |-> "ok", pieces |-> <<split[2], <<" ">>, server_nonce, <<NL>>>>]

\* secure::receive_and_repeat on the line read: the first token must be the
\* client's nonce, the second is written back with a newline.
receive_and_repeat(my_nonce, line) ==
    LET split == SplitWhitespace(line)
    IN  IF Len(split) = 0 THEN [res |-> "err", pieces |-> <<>>]
        ELSE IF my_nonce # split[1] THEN [res |-> "err", pieces |-> <<>>]
        ELSE IF Len(split) < 2 THEN [res |-> "err", pieces |-> <<>>]
        ELSE [res |-> "ok", pieces |-> <<split[2], <<NL>>>>]

\* secure::client_repeat_correct: Ok(server_nonce == line.trim())
client_repeat_correct(server_nonce, line) == server_nonce = Trim(line)

\* secure::encryption_successful: Ok(line.trim() == "SUCCESS")
encryption_successful(line) == Trim(line) = SUCCESS

\* server_handshake: writeln!(rsa_writer, "SUCCESS")
success_pieces == <<SUCCESS \o <<NL>>>>

\* secure::begin_aes_encryption_client: write!(rsa_writer, "AES_KEY:{}", hex)
begin_aes_encryption_client_pieces(manager) ==
    <<AES_KEY_PREFIX \o <<":">>, parsable_string(manager)>>

\* secure::get_aes_key on the line read
get_aes_key(line) ==
    LET split == SplitOn(Trim(line), ":")
    IN  IF split[1] # AES_KEY_PREFIX THEN [res |-> "err", manager |-> NoManager]
        ELSE IF Len(split) < 2 THEN [res |-> "panic", manager |-> NoManager]
        ELSE IF AESManagerFromStr(split[2]).ok
             THEN [res |-> "ok", manager |-> AESManagerFromStr(split[2]).manager]
             ELSE [res |-> "err", manager |-> NoManager]

(***************************************************************************)
(* The transport.  BufReader::new(reader).read_line over the raw          *)
(* transport returns once a newline has arrived, or with what has arrived *)
(* when a read of the transport returns 0.  The BufReader takes whatever  *)
(* the transport hands over with the read that completes the line, and    *)
(* is dropped with the step: what it took beyond the line is gone.         *)
(***************************************************************************)
ClearReadable(src, ended) == IndexOf(src, NL) # 0 \/ ended

ClearLine(src) == IF IndexOf(src, NL) # 0 THEN SubSeq(src, 1, IndexOf(src, NL)) ELSE src

\* The positions of the source at which a frame in flight ends
RECURSIVE FrameEnds(_)
FrameEnds(frames) ==
    IF frames = <<>> THEN {}
    ELSE {Head(frames)} \cup {Head(frames) + b : b \in FrameEnds(Tail(frames))}

\* How many characters the step's BufReader may have taken from the source:
\* the line alone, or the line and what had arrived behind it (up to the end
\* of a frame in flight, or everything).
ClearTakes(src, frames) ==
    IF IndexOf(src, NL) = 0 THEN {Len(src)}
    ELSE {IndexOf(src, NL), Len(src)} \cup {b \in FrameEnds(frames) : b >= IndexOf(src, NL)}

\* The lengths of the frames in flight after k characters were taken
RECURSIVE DropFrames(_, _)
DropFrames(frames, k) ==
    IF k = 0 \/ frames = <<>> THEN frames
    ELSE IF Head(frames) <= k THEN DropFrames(Tail(frames), k - Head(frames))
    ELSE <<Head(frames) - k>> \o Tail(frames)

(***************************************************************************)
(* State.                                                                   *)
(*   mode     "duplex": client_handshake and server_handshake run against *)
(*            each other over a duplex stream that nobody closes;          *)
(*            "client": client_handshake against an arbitrary peer;       *)
(*            "server": server_handshake against an arbitrary peer.       *)
(*   cpc, spc the next step of each role, or "ok" (returned Ok), "err"    *)
(*            (returned Err), "panic", "absent".                           *)
(*   chan     chan.c2s: written by the client side, read by the server    *)
(*            side; chan.s2c the reverse.                                   *)
(*   ended    a read of the drained peer direction returns 0.              *)
(*   inflight lengths of the peer's frames not yet read (bounds the peer). *)
(*   clog, slog  what each role read and wrote, in order.                  *)
(*   lib      the call of the library made outside a handshake (the        *)
(*            operation, its arguments, what it returned), "idle" between  *)
(*            calls.                                                        *)
(*   aes_stream  an AESWriter and the AESReader that reads its output:     *)
(*            the key manager, the message written, the bytes of the inner *)
(*            stream not yet read, the reader's internal_buffer, the bytes *)
(*            the reads have returned.                                      *)
(***************************************************************************)
VARIABLES mode, cpc, spc, chan, ended, inflight,
          first_nonce, ckeys, server_public_key, second_nonce, caes,
          skeys, client_key, snonce, saes,
          clog, slog,
          lib, aes_stream, rsa_reader, mfs

vars == <<mode, cpc, spc, chan, ended, inflight,
          first_nonce, ckeys, server_public_key, second_nonce, caes,
          skeys, client_key, snonce, saes, clog, slog, lib, aes_stream,
          rsa_reader, mfs>>

handshakeVars == <<mode, cpc, spc, chan, ended, inflight,
                   first_nonce, ckeys, server_public_key, second_nonce, caes,
                   skeys, client_key, snonce, saes, clog, slog>>
libVars == <<lib, aes_stream, rsa_reader, mfs>>

clientLocals == <<first_nonce, ckeys, server_public_key, second_nonce, caes>>
serverLocals == <<skeys, client_key, snonce, saes>>

\* The peer may have this many frames in flight.
MaxPending == 1

Final == {"ok", "err", "panic", "absent"}

\* No library call under way; no AES stream open
LibIdle == [op |-> "idle", in |-> <<>>, out |-> <<>>]
NoStream == [pc |-> "idle", key_manager |-> NoManager, message |-> <<>>, second |-> <<>>,
             source |-> "slice",
             inner |-> <<>>, internal_buffer |-> <<>>, buf_len |-> 0, read |-> <<>>,
             last |-> [got |-> 0, left |-> 0, n |-> 0]]

\* No RSAReader open
NoReader == [pc |-> "idle", keys |-> NoKeys, source |-> <<>>,
             buffer |-> <<>>, buf_len |-> 0, read |-> <<>>, appends |-> 0,
             last |-> [buffer |-> <<>>, source_read |-> FALSE, taken |-> <<>>, n |-> 0]]

\* The largest number of handles of one MultiFileReadWrite
MaxHandles == 3

\* The most bytes the transport under a MultiFileReadWrite holds
MaxTransport == 2

\* No MultiFileReadWrite: no handle, the lock free, no operation running
NoShared == [handles |-> 0, holder |-> 0, at |-> [c \in 1..MaxHandles |-> "idle"],
             op |-> [c \in 1..MaxHandles |-> "none"], running |-> {}, transport |-> <<>>]

\* What a role has done: its reads (the step, the line read, how the step
\* ended: "ok", "no" for an Ok that did nothing, "err", "panic"), its writes
\* (the step, the text written, how the write ended), and the order of both.
\* A read that yielded no line ends "readpanic" or "ioerr".
EmptyLog == [trace |-> <<>>, reads |-> <<>>, writes |-> <<>>]

LogRead(log, step, data, res) ==
    [log EXCEPT !.trace = Append(@, <<"read", step>>),
                !.reads = Append(@, [step |-> step, data |-> data, res |-> res])]

LogWrite(log, step, data, res) ==
    [log EXCEPT !.trace = Append(@, <<"write", step>>),
                !.writes = Append(@, [step |-> step, data |-> data, res |-> res])]

\* client_handshake and server_handshake are straight-line code: the steps of
\* each in the order of the source
client_steps ==
    << "handshake_start", "receive_ack", "send_public_key", "receive_public_key",
       "secure_handshake_start", "receive_and_repeat", "encryption_successful",
       "begin_aes_encryption_client" >>

server_steps ==
    << "server_ack", "receive_public_key", "send_public_key", "secure_server_ack",
       "client_repeat_correct", "write_success", "get_aes_key" >>

\* The step after step, "ok" (the Ok the handshake returns) after the last
After(steps, step) ==
    LET i == CHOOSE k \in 1..Len(steps) : steps[k] = step
    IN  IF i = Len(steps) THEN "ok" ELSE steps[i + 1]

Init ==
    /\ mode \in {"duplex", "client", "server"}
    /\ cpc = IF mode = "server" THEN "absent" ELSE client_steps[1]
    /\ spc = IF mode = "client" THEN "absent" ELSE server_steps[1]
    /\ chan = [c2s |-> <<>>, s2c |-> <<>>]
    /\ ended = FALSE
    /\ inflight = <<>>
    /\ first_nonce = <<>>
    /\ ckeys = NoKeys
    /\ server_public_key = NoKey
    /\ second_nonce = <<>>
    /\ caes = NoManager
    /\ skeys = NoKeys
    /\ client_key = NoKey
    /\ snonce = <<>>
    /\ saes = NoManager
    /\ clog = EmptyLog
    /\ slog = EmptyLog
    /\ lib = LibIdle
    /\ aes_stream = NoStream
    /\ rsa_reader = NoReader
    /\ mfs = NoShared

\* The outcome of a step whose write ended w: on with the handshake, or out
StepAfter(w, next) == IF w.res = "ok" THEN next ELSE w.res

\* A read_line that did not yield a line: the panic of RSAReader::read, or
\* the io::Error that the step's ? returns
ReadFailed(rd) == rd.res # "ok"
ReadFailure(rd) == IF rd.res = "panic" THEN "readpanic" ELSE "ioerr"
FailedStep(rd) == IF rd.res = "panic" THEN "panic" ELSE "err"

(***************************************************************************)
(* client_handshake (src/handshake.rs), one action per step.               *)
(***************************************************************************)
\* generate_nonce(4); unsecure::handshake_start
C_handshake_start ==
    /\ cpc = "handshake_start"
    /\ \E nonce \in generate_nonce(4) :
          /\ first_nonce' = nonce
          /\ chan' = [chan EXCEPT !.c2s = @ \o handshake_start_frame(nonce)]
          /\ clog' = LogWrite(clog, "handshake_start", handshake_start_frame(nonce), "ok")
    /\ cpc' = After(client_steps, "handshake_start")
    /\ UNCHANGED <<libVars, mode, spc, ended, inflight, ckeys, server_public_key, second_nonce, caes,
                   serverLocals, slog>>

\* unsecure::receive_ack, and the Err of client_handshake on Ok(false)
C_receive_ack ==
    /\ cpc = "receive_ack"
    /\ ClearReadable(chan.s2c, ended)
    /\ \E take \in ClearTakes(chan.s2c, inflight) :
          /\ chan' = [chan EXCEPT !.s2c = SubSeq(@, take + 1, Len(@))]
          /\ inflight' = DropFrames(inflight, take)
    /\ LET line == ClearLine(chan.s2c)
           res == IF receive_ack(first_nonce, line) THEN "ok" ELSE "err"
       IN  /\ cpc' = IF res = "ok" THEN After(client_steps, "receive_ack") ELSE "err"
           /\ clog' = LogRead(clog, "receive_ack", line, res)
    /\ UNCHANGED <<libVars, mode, spc, ended, clientLocals, serverLocals, slog>>

\* AESManager::new(K256); generate_keys(); send_public_key
C_send_public_key ==
    /\ cpc = "send_public_key"
    /\ \E manager \in AESManagers(256), keys \in HandshakeKeys :
          /\ caes' = manager
          /\ ckeys' = keys
          /\ chan' = [chan EXCEPT !.c2s = @ \o send_public_key_frame(public_key(keys))]
          /\ clog' = LogWrite(clog, "send_public_key",
                                        send_public_key_frame(public_key(keys)), "ok")
    /\ cpc' = After(client_steps, "send_public_key")
    /\ UNCHANGED <<libVars, mode, spc, ended, inflight, first_nonce, server_public_key, second_nonce,
                   serverLocals, slog>>

\* receive_public_key
C_receive_public_key ==
    /\ cpc = "receive_public_key"
    /\ ClearReadable(chan.s2c, ended)
    /\ \E take \in ClearTakes(chan.s2c, inflight) :
          /\ chan' = [chan EXCEPT !.s2c = SubSeq(@, take + 1, Len(@))]
          /\ inflight' = DropFrames(inflight, take)
    /\ LET line == ClearLine(chan.s2c)
           r == receive_public_key(line)
       IN  /\ server_public_key' = r.key
           /\ cpc' = IF r.res = "ok" THEN After(client_steps, "receive_public_key") ELSE r.res
           /\ clog' = LogRead(clog, "receive_public_key", line, r.res)
    /\ UNCHANGED <<libVars, mode, spc, ended, first_nonce, ckeys, second_nonce, caes, serverLocals, slog>>

\* generate_nonce(16); secure::handshake_start
C_secure_handshake_start ==
    /\ cpc = "secure_handshake_start"
    /\ \E nonce \in generate_nonce(16) :
          LET w == RSAWriteFmt(server_public_key, secure_handshake_start_pieces(nonce))
          IN  /\ second_nonce' = nonce
              /\ chan' = [chan EXCEPT !.c2s = @ \o w.out]
              /\ cpc' = StepAfter(w, After(client_steps, "secure_handshake_start"))
              /\ clog' = LogWrite(clog, "secure_handshake_start",
                                            Concat(secure_handshake_start_pieces(nonce)), w.res)
    /\ UNCHANGED <<libVars, mode, spc, ended, inflight, first_nonce, ckeys, server_public_key, caes,
                   serverLocals, slog>>

\* secure::receive_and_repeat
C_receive_and_repeat ==
    /\ cpc = "receive_and_repeat"
    /\ ended
    /\ LET rd == SecureReadLine(private_key(ckeys), chan.s2c)
           r == receive_and_repeat(second_nonce, rd.line)
           w == RSAWriteFmt(server_public_key, r.pieces)
       IN  IF ReadFailed(rd)
           THEN /\ cpc' = FailedStep(rd)
                /\ chan' = [chan EXCEPT !.s2c = <<>>]
                /\ clog' = LogRead(clog, "receive_and_repeat", <<>>, ReadFailure(rd))
           ELSE IF r.res # "ok"
           THEN /\ cpc' = "err"
                /\ chan' = [chan EXCEPT !.s2c = <<>>]
                /\ clog' = LogRead(clog, "receive_and_repeat", rd.line, "err")
           ELSE /\ cpc' = StepAfter(w, After(client_steps, "receive_and_repeat"))
                /\ chan' = [chan EXCEPT !.s2c = <<>>, !.c2s = @ \o w.out]
                /\ clog' = LogWrite(LogRead(clog, "receive_and_repeat", rd.line, "ok"),
                                    "receive_and_repeat", Concat(r.pieces), w.res)
    /\ inflight' = <<>>
    /\ UNCHANGED <<libVars, mode, spc, ended, clientLocals, serverLocals, slog>>

\* secure::encryption_successful, and the Err of client_handshake on Ok(false)
C_encryption_successful ==
    /\ cpc = "encryption_successful"
    /\ ended
    /\ LET rd == SecureReadLine(private_key(ckeys), chan.s2c)
           res == IF encryption_successful(rd.line) THEN "ok" ELSE "err"
       IN  IF ReadFailed(rd)
           THEN /\ cpc' = FailedStep(rd)
                /\ clog' = LogRead(clog, "encryption_successful", <<>>, ReadFailure(rd))
           ELSE /\ cpc' = IF res = "ok" THEN After(client_steps, "encryption_successful")
                                        ELSE "err"
                /\ clog' = LogRead(clog, "encryption_successful", rd.line, res)
    /\ chan' = [chan EXCEPT !.s2c = <<>>]
    /\ inflight' = <<>>
    /\ UNCHANGED <<libVars, mode, spc, ended, clientLocals, serverLocals, slog>>

\* secure::begin_aes_encryption_client; Ok(aes_manager)
C_begin_aes_encryption_client ==
    /\ cpc = "begin_aes_encryption_client"
    /\ LET w == RSAWriteFmt(server_public_key, begin_aes_encryption_client_pieces(caes))
       IN  /\ chan' = [chan EXCEPT !.c2s = @ \o w.out]
           /\ cpc' = StepAfter(w, After(client_steps, "begin_aes_encryption_client"))
           /\ clog' = LogWrite(clog, "begin_aes_encryption_client",
                                         Concat(begin_aes_encryption_client_pieces(caes)), w.res)
    /\ UNCHANGED <<libVars, mode, spc, ended, inflight, clientLocals, serverLocals, slog>>

client_handshake ==
    \/ C_handshake_start
    \/ C_receive_ack
    \/ C_send_public_key
    \/ C_receive_public_key
    \/ C_secure_handshake_start
    \/ C_receive_and_repeat
    \/ C_encryption_successful
    \/ C_begin_aes_encryption_client

(***************************************************************************)
(* server_handshake (src/handshake.rs), one action per step.               *)
(***************************************************************************)
\* unsecure::server_ack
S_server_ack ==
    /\ spc = "server_ack"
    /\ ClearReadable(chan.c2s, ended)
    /\ \E take \in ClearTakes(chan.c2s, inflight) :
          LET line == ClearLine(chan.c2s)
              r == unsecure_server_ack(line)
          IN  /\ chan' = [chan EXCEPT !.c2s = SubSeq(@, take + 1, Len(@)), !.s2c = @ \o r.out]
              /\ inflight' = DropFrames(inflight, take)
              /\ spc' = IF r.res = "panic" THEN "panic" ELSE After(server_steps, "server_ack")
              /\ slog' = IF r.res = "ok"
                         THEN LogWrite(LogRead(slog, "server_ack", line, "ok"),
                                       "server_ack", r.out, "ok")
                         ELSE LogRead(slog, "server_ack", line, r.res)
    /\ UNCHANGED <<libVars, mode, cpc, ended, clientLocals, serverLocals, clog>>

\* generate_keys(); receive_public_key
S_receive_public_key ==
    /\ spc = "receive_public_key"
    /\ ClearReadable(chan.c2s, ended)
    /\ \E take \in ClearTakes(chan.c2s, inflight), keys \in HandshakeKeys :
          LET line == ClearLine(chan.c2s)
              r == receive_public_key(line)
          IN  /\ skeys' = keys
              /\ client_key' = r.key
              /\ chan' = [chan EXCEPT !.c2s = SubSeq(@, take + 1, Len(@))]
              /\ inflight' = DropFrames(inflight, take)
              /\ spc' = IF r.res = "ok" THEN After(server_steps, "receive_public_key") ELSE r.res
              /\ slog' = LogRead(slog, "receive_public_key", line, r.res)
    /\ UNCHANGED <<libVars, mode, cpc, ended, clientLocals, snonce, saes, clog>>

\* send_public_key
S_send_public_key ==
    /\ spc = "send_public_key"
    /\ chan' = [chan EXCEPT !.s2c = @ \o send_public_key_frame(public_key(skeys))]
    /\ slog' = LogWrite(slog, "send_public_key",
                                  send_public_key_frame(public_key(skeys)), "ok")
    /\ spc' = After(server_steps, "send_public_key")
    /\ UNCHANGED <<libVars, mode, cpc, ended, inflight, clientLocals, serverLocals, clog>>

\* generate_nonce(16); secure::server_ack, whose Ok(false) server_handshake
\* does not look at
S_secure_server_ack ==
    /\ spc = "secure_server_ack"
    /\ ended
    /\ \E nonce \in generate_nonce(16) :
          LET rd == SecureReadLine(private_key(skeys), chan.c2s)
              r == secure_server_ack(nonce, rd.line)
              w == RSAWriteFmt(client_key, r.pieces)
          IN  /\ snonce' = nonce
              /\ IF ReadFailed(rd)
                 THEN /\ spc' = FailedStep(rd)
                      /\ chan' = [chan EXCEPT !.c2s = <<>>]
                      /\ slog' = LogRead(slog, "secure_server_ack", <<>>, ReadFailure(rd))
                 ELSE IF r.res = "panic"
                 THEN /\ spc' = "panic"
                      /\ chan' = [chan EXCEPT !.c2s = <<>>]
                      /\ slog' = LogRead(slog, "secure_server_ack", rd.line, "panic")
                 ELSE IF r.res = "no"
                 THEN /\ spc' = After(server_steps, "secure_server_ack")
                      /\ chan' = [chan EXCEPT !.c2s = <<>>]
                      /\ slog' = LogRead(slog, "secure_server_ack", rd.line, "no")
                 ELSE /\ spc' = StepAfter(w, After(server_steps, "secure_server_ack"))
                      /\ chan' = [chan EXCEPT !.c2s = <<>>, !.s2c = @ \o w.out]
                      /\ slog' = LogWrite(LogRead(slog, "secure_server_ack", rd.line, "ok"),
                                          "secure_server_ack", Concat(r.pieces), w.res)
    /\ inflight' = <<>>
    /\ UNCHANGED <<libVars, mode, cpc, ended, clientLocals, skeys, client_key, saes, clog>>

\* secure::client_repeat_correct, and the Err of server_handshake on Ok(false)
S_client_repeat_correct ==
    /\ spc = "client_repeat_correct"
    /\ ended
    /\ LET rd == SecureReadLine(private_key(skeys), chan.c2s)
           res == IF client_repeat_correct(snonce, rd.line) THEN "ok" ELSE "err"
       IN  IF ReadFailed(rd)
           THEN /\ spc' = FailedStep(rd)
                /\ slog' = LogRead(slog, "client_repeat_correct", <<>>, ReadFailure(rd))
           ELSE /\ spc' = IF res = "ok" THEN After(server_steps, "client_repeat_correct")
                                        ELSE "err"
                /\ slog' = LogRead(slog, "client_repeat_correct", rd.line, res)
    /\ chan' = [chan EXCEPT !.c2s = <<>>]
    /\ inflight' = <<>>
    /\ UNCHANGED <<libVars, mode, cpc, ended, clientLocals, serverLocals, clog>>

\* writeln!(rsa_writer, "SUCCESS")
S_write_success ==
    /\ spc = "write_success"
    /\ LET w == RSAWriteFmt(client_key, success_pieces)
       IN  /\ chan' = [chan EXCEPT !.s2c = @ \o w.out]
           /\ spc' = StepAfter(w, After(server_steps, "write_success"))
           /\ slog' = LogWrite(slog, "write_success", Concat(success_pieces), w.res)
    /\ UNCHANGED <<libVars, mode, cpc, ended, inflight, clientLocals, serverLocals, clog>>

\* secure::get_aes_key, the value server_handshake returns
S_get_aes_key ==
    /\ spc = "get_aes_key"
    /\ ended
    /\ LET rd == SecureReadLine(private_key(skeys), chan.c2s)
           r == get_aes_key(rd.line)
       IN  IF ReadFailed(rd)
           THEN /\ spc' = FailedStep(rd)
                /\ saes' = saes
                /\ slog' = LogRead(slog, "get_aes_key", <<>>, ReadFailure(rd))
           ELSE /\ spc' = IF r.res = "ok" THEN After(server_steps, "get_aes_key") ELSE r.res
                /\ saes' = r.manager
                /\ slog' = LogRead(slog, "get_aes_key", rd.line, r.res)
    /\ chan' = [chan EXCEPT !.c2s = <<>>]
    /\ inflight' = <<>>
    /\ UNCHANGED <<libVars, mode, cpc, ended, clientLocals, skeys, client_key, snonce, clog>>

server_handshake ==
    \/ S_server_ack
    \/ S_receive_public_key
    \/ S_send_public_key
    \/ S_secure_server_ack
    \/ S_client_repeat_correct
    \/ S_write_success
    \/ S_get_aes_key

(***************************************************************************)
(* The peer of the modes "client" and "server": any program at the other  *)
(* end of the transport.  It sends frames of its choice, clear-text ones  *)
(* while the role waits in a clear-text read and RSA-framed ones (under   *)
(* the role's public key) while it waits in an RSA read, and it may end   *)
(* its stream; a transport such as a file goes on delivering what is      *)
(* appended after a read returned 0.  The peer acts while the role waits  *)
(* in a read: a write of the role does not depend on what has arrived, so *)
(* a frame sent before it is a frame sent after it.                        *)
(***************************************************************************)
PeerDirection == IF mode = "client" THEN "s2c" ELSE "c2s"

RolePc == IF mode = "client" THEN cpc ELSE spc

\* The steps that read a clear-text line, and those that read an RSA-framed one
ClearReads == {"server_ack", "receive_ack", "receive_public_key"}
SecureReads == {"secure_server_ack", "receive_and_repeat", "client_repeat_correct",
                "encryption_successful", "get_aes_key"}

\* The wire form of a public key that PublicKey::from_str parses
KeyLine(n, e) == RSA_PREFIX \o <<":">> \o ToDec(n) \o <<" ">> \o ToDec(e) \o <<NL>>

PeerKeyLines ==
    { KeyLine(3233, 17),
      <<" ">> \o KeyLine(1517, 7),
      KeyLine(35, 5),
      <<"R", "S", "X", ":", "3", "5", " ", "5", NL>>,
      <<"R", "S", "A", NL>>,
      <<"R", "S", "A", ":", "3", "5", NL>> }

PeerNonce == <<"4", "2">>
WrongNonce == <<"9">>

\* The clear-text frames the peer sends: answers, right and wrong, to the read
\* the role is in, a frame that holds the answer to the next read as well,
\* and a frame of the other kind.
PeerClearLines ==
    CASE RolePc = "receive_ack" ->
             { first_nonce \o <<NL>>,
               <<" ">> \o first_nonce \o <<" ", NL>>,
               first_nonce,
               WrongNonce \o <<NL>>,
               first_nonce \o <<NL>> \o KeyLine(3233, 17),
               KeyLine(3233, 17) }
      [] RolePc = "server_ack" ->
             { handshake_start_frame(PeerNonce),
               handshake_start_frame(PeerNonce) \o KeyLine(3233, 17),
               HANDSHAKE_START_PHRASE \o <<NL>>,
               <<"H", "I", " ">> \o PeerNonce \o <<NL>>,
               <<NL>>,
               KeyLine(3233, 17) }
      [] RolePc = "receive_public_key" ->
             PeerKeyLines \cup { PeerNonce \o <<NL>> }
      [] OTHER -> {}

\* The texts the peer sends under RSA framing: answers, right and wrong, to the
\* read the role is in.
PeerSecureTexts ==
    CASE RolePc = "receive_and_repeat" ->
             { second_nonce \o <<" ">> \o PeerNonce \o <<NL>>,
               second_nonce \o <<" ">> \o PeerNonce \o <<NL>> \o SUCCESS \o <<NL>>,
               WrongNonce \o <<" ">> \o PeerNonce \o <<NL>>,
               second_nonce \o <<NL>> }
      [] RolePc = "encryption_successful" ->
             { SUCCESS \o <<NL>>,
               <<" ">> \o SUCCESS,
               <<"F", "A", "I", "L", NL>> }
      [] RolePc = "secure_server_ack" ->
             { Concat(secure_handshake_start_pieces(PeerNonce)),
               SECRET_HANDSHAKE_START_PHRASE \o <<NL>>,
               <<"H", "I", " ">> \o PeerNonce \o <<NL>>,
               <<NL>> }
      [] RolePc = "client_repeat_correct" ->
             { snonce \o <<NL>>,
               <<" ">> \o snonce,
               WrongNonce \o <<NL>> }
      [] RolePc = "get_aes_key" ->
             { AES_KEY_PREFIX \o <<NL>>,
               <<"K", "E", "Y", ":", "a", "b">>,
               AES_KEY_PREFIX \o <<":", "x", "y">> }
             \cup { Concat(begin_aes_encryption_client_pieces(m)) : m \in AESManagers(256) }
      [] OTHER -> {}

RolePublicKey == IF mode = "client" THEN public_key(ckeys) ELSE public_key(skeys)

PeerSendClear ==
    /\ mode \in {"client", "server"}
    /\ RolePc \in ClearReads
    /\ Len(inflight) < MaxPending
    /\ \E line \in PeerClearLines :
          /\ line # <<>>
          /\ chan' = [chan EXCEPT ![PeerDirection] = @ \o line]
          /\ inflight' = Append(inflight, Len(line))
    /\ UNCHANGED <<libVars, mode, cpc, spc, ended, clientLocals, serverLocals, clog, slog>>

PeerSendSecure ==
    /\ mode \in {"client", "server"}
    /\ RolePc \in SecureReads
    /\ Len(inflight) < MaxPending
    /\ \E text \in PeerSecureTexts :
          LET w == RSAWriteFmt(RolePublicKey, <<text>>)
          IN  /\ w.out # <<>>
              /\ chan' = [chan EXCEPT ![PeerDirection] = @ \o w.out]
              /\ inflight' = Append(inflight, Len(w.out))
    /\ UNCHANGED <<libVars, mode, cpc, spc, ended, clientLocals, serverLocals, clog, slog>>

PeerEnd ==
    /\ mode \in {"client", "server"}
    /\ RolePc \in ClearReads \cup SecureReads
    /\ ~ended
    /\ ended' = TRUE
    /\ UNCHANGED <<libVars, mode, cpc, spc, chan, inflight, clientLocals, serverLocals, clog, slog>>

Next ==
    \/ client_handshake
    \/ server_handshake
    \/ PeerSendClear
    \/ PeerSendSecure
    \/ PeerEnd

Spec == Init /\ [][Next]_vars

(***************************************************************************)
(* The library called outside a handshake: one call at a time, each with  *)
(* arguments of the caller's choice.                                       *)
(***************************************************************************)
LibInit ==
    /\ mode = "library"
    /\ cpc = "absent"
    /\ spc = "absent"
    /\ chan = [c2s |-> <<>>, s2c |-> <<>>]
    /\ ended = FALSE
    /\ inflight = <<>>
    /\ first_nonce = <<>>
    /\ ckeys = NoKeys
    /\ server_public_key = NoKey
    /\ second_nonce = <<>>
    /\ caes = NoManager
    /\ skeys = NoKeys
    /\ client_key = NoKey
    /\ snonce = <<>>
    /\ saes = NoManager
    /\ clog = EmptyLog
    /\ slog = EmptyLog
    /\ lib = LibIdle
    /\ aes_stream = NoStream
    /\ rsa_reader = NoReader
    /\ mfs = NoShared

\* No call is under way and no stream is open
NoCall ==
    /\ lib.op = "idle"
    /\ aes_stream.pc = "idle"
    /\ rsa_reader.pc = "idle"
    /\ mfs.handles = 0

LibCall(op, in, out) == [op |-> op, in |-> in, out |-> out]

\* The triples a caller hands to RSAKeys::new: the triple of the tests of
\* rsa.rs, triples of the handshake, triples with unrelated exponents, small
\* moduli and the modulus 0
NewTriples ==
    { [e |-> 5, d |-> 29, n |-> 35],
      [e |-> 17, d |-> 413, n |-> 3233],
      [e |-> 3, d |-> 5, n |-> 35],
      [e |-> 2, d |-> 2, n |-> 7],
      [e |-> 1, d |-> 1, n |-> 5],
      [e |-> 3, d |-> 3, n |-> 1],
      [e |-> 1, d |-> 1, n |-> 2],
      [e |-> 5, d |-> 29, n |-> 0] }

\* RSAKeys::new(e, d, n)
L_RSAKeys_new ==
    /\ NoCall
    /\ \E t \in NewTriples : lib' = LibCall("RSAKeys::new", t, RSAKeys_new(t.e, t.d, t.n))
    /\ UNCHANGED <<handshakeVars, aes_stream, rsa_reader, mfs>>

\* RSAKeysGenerator::new(key_size).generate_keys()
L_generate_keys ==
    /\ NoCall
    /\ \E keys \in generate_keys(KeySizeBits) :
          lib' = LibCall("generate_keys", KeySizeBits, keys)
    /\ UNCHANGED <<handshakeVars, aes_stream, rsa_reader, mfs>>

\* RSAKeysGenerator::new(key_size).generate_keys_unchecked()
L_generate_keys_unchecked ==
    /\ NoCall
    /\ \E keys \in generate_keys_unchecked(KeySizeBits) :
          lib' = LibCall("generate_keys_unchecked", KeySizeBits, keys)
    /\ UNCHANGED <<handshakeVars, aes_stream, rsa_reader, mfs>>

\* The largest operand of the calls of modulo_inverse and egcd
MaxOperand == 12

\* modulo_inverse(a, m) and egcd(a, m)
L_modulo_inverse ==
    /\ NoCall
    /\ \E a \in 0..MaxOperand, m \in 1..MaxOperand :
          lib' = LibCall("modulo_inverse", [a |-> a, m |-> m],
                  [inverse |-> modulo_inverse(a, m), egcd |-> egcd(a, m)])
    /\ UNCHANGED <<handshakeVars, aes_stream, rsa_reader, mfs>>

\* The key sizes of tests::prime_test_accurate that the prime test is run at
PrimeTestKeySizes == {4, 8, 16}

\* The numbers the prime test is run on: every candidate of these key sizes
\* and the small numbers around them
PrimeTestNumbers ==
    UNION { CandidatePrimes(key_size) : key_size \in PrimeTestKeySizes }
        \cup {4, 5, 7, 9, 11, 13, 15, 17, 25}

\* tests::prime_test_accurate on one number: is_prime_probabilistic(number,
\* 128) with one of the results its draws allow, and is_prime(number)
L_prime_test ==
    /\ NoCall
    /\ \E number \in PrimeTestNumbers :
          \E result \in is_prime_probabilistic_results(number) :
              lib' = LibCall("prime_test", number,
                      [probabilistic |-> result, is_prime |-> is_prime(number)])
    /\ UNCHANGED <<handshakeVars, aes_stream, rsa_reader, mfs>>

\* The key triples the library hands out: by generate_keys, by RSAKeys::new
AcceptedKeys ==
    generate_keys(KeySizeBits)
        \cup { RSAKeys_new(t.e, t.d, t.n).keys :
                  t \in { u \in NewTriples : RSAKeys_new(u.e, u.d, u.n).res = "ok" } }

\* encrypt and decrypt of a message of either variant with an integer below
\* the modulus, once and twice, and decrypt of encrypt
L_encrypt_decrypt ==
    /\ NoCall
    /\ \E keys \in AcceptedKeys, v \in 0..Pow2(KeySizeBits),
           make \in {"Decrypted", "Encrypted"} :
          LET msg == [variant |-> make, v |-> v]
              pk == public_key(keys)
              sk == private_key(keys)
          IN  /\ v < keys.n
              /\ lib' = LibCall("encrypt_decrypt",
                     [keys |-> keys, message |-> msg],
                     [encrypted |-> RSAMessage_encrypt(msg, pk),
                      decrypted |-> RSAMessage_decrypt(msg, sk),
                      encrypted_twice |-> RSAMessage_encrypt(RSAMessage_encrypt(msg, pk), pk),
                      decrypted_twice |-> RSAMessage_decrypt(RSAMessage_decrypt(msg, sk), sk),
                      round_trip |-> RSAMessage_decrypt(RSAMessage_encrypt(msg, pk), sk)])
    /\ UNCHANGED <<handshakeVars, aes_stream, rsa_reader, mfs>>

\* A run of len copies of one item
Rep(x, len) == [i \in 1..len |-> x]

\* The strings a caller hands to AESManager::from_str: the serialised form of
\* every manager, runs of hexadecimal digits of the accepted lengths and of
\* lengths next to them, with leading zeros, in upper case, and texts that
\* are no hexadecimal numbers
KeyStrings ==
    { parsable_string(m) : m \in AllManagers }
        \cup { Rep("a", len) : len \in {0, 1, 2, 31, 32, 33, 47, 48, 49, 62, 63, 64, 65, 66} }
        \cup { Rep("0", zeros) \o Rep("7", 32) : zeros \in {1, 2, 16} }
        \cup { Rep("0", 2) \o Rep("7", 30), Rep("0", 32), Rep("C", 48),
               Rep("a", 31) \o <<"x">>, <<"x", "y">>, AES_KEY_PREFIX,
               <<" ">> \o Rep("a", 32), Rep("a", 32) \o <<NL>> }

\* AESManager::from_str(s)
L_from_str ==
    /\ NoCall
    /\ \E str \in KeyStrings : lib' = LibCall("from_str", str, AESManagerFromStr(str))
    /\ UNCHANGED <<handshakeVars, aes_stream, rsa_reader, mfs>>

\* The block of the tests of aes.rs: "Hello, World!" and zero bytes
ProbeBlock == <<72, 101, 108, 108, 111, 44, 32, 87, 111, 114, 108, 100, 33, 0, 0, 0>>

\* tests::propagate_key for a manager of any size and key: the manager is
\* serialised and parsed, and the parsed one decrypts a block the first
\* encrypted
L_propagate_key ==
    /\ NoCall
    /\ \E manager \in AllManagers :
          LET parsed == AESManagerFromStr(parsable_string(manager))
          IN  lib' = LibCall("propagate_key", manager,
                  [string |-> parsable_string(manager),
                   parsed |-> parsed,
                   decrypted |-> IF parsed.ok
                                 THEN decrypt_block(parsed.manager.key_value,
                                          encrypt_block(manager.key_value, ProbeBlock))
                                 ELSE <<>>])
    /\ UNCHANGED <<handshakeVars, aes_stream, rsa_reader, mfs>>

\* The longest message of the AES calls, in blocks
MaxBlocks == 2

\* "Hello World", the message of the test of aes_stream.rs
HelloWorld == <<72, 101, 108, 108, 111, 32, 87, 111, 114, 108, 100>>

\* The messages of the AES calls: of every length around the block
\* boundaries, without zero bytes and with them
Messages ==
    { [i \in 1..len |-> 65 + (i % 26)] :
          len \in {0, 1, 15} \cup { 16 * k + r : k \in 1..MaxBlocks, r \in {0, 1} } }
        \cup { HelloWorld, <<72, 0, 105>>, <<0>>, Rep(0, 16), Rep(255, 17) }

\* encrypt(m) and decrypt of its blocks
L_aes_encrypt_decrypt ==
    /\ NoCall
    /\ \E manager \in AllManagers, m \in Messages :
          lib' = LibCall("aes_encrypt_decrypt", [manager |-> manager, message |-> m],
                  [blocks |-> AESManager_encrypt(manager, m),
                   decrypted |-> AESManager_decrypt(manager, AESManager_encrypt(manager, m))])
    /\ UNCHANGED <<handshakeVars, aes_stream, rsa_reader, mfs>>

\* The buffers handed to AESWriter::write: "Hello" and " World", the two
\* halves of the message of the test, the empty buffer, one block, one block
\* and a byte
WriteBufs ==
    { <<>>, SubSeq(HelloWorld, 1, 5), SubSeq(HelloWorld, 6, 11), HelloWorld,
      [i \in 1..16 |-> 65 + (i % 26)], [i \in 1..17 |-> 65 + (i % 26)] }

\* Two write calls on one AESWriter over an empty sink
L_aes_write ==
    /\ NoCall
    /\ \E manager \in AllManagers, first \in WriteBufs, second \in WriteBufs :
          LET w1 == AESWriter_write(manager, first)
              w2 == AESWriter_write(manager, second)
          IN  lib' = LibCall("aes_write",
                      [manager |-> manager, first |-> first, second |-> second],
                      [returned |-> <<w1.n, w2.n>>, inner |-> w1.out \o w2.out])
    /\ UNCHANGED <<handshakeVars, aes_stream, rsa_reader, mfs>>

\* Key pairs of the RSA streams: one whose writes take 1 byte, one (9-bit
\* primes 257 and 263) whose writes take 2
StreamKeys ==
    { k \in { [e |-> 17, d |-> 413, n |-> 3233], [e |-> 3, d |-> 11179, n |-> 67591] } :
        valid(k) }

\* "Hello, World!", the message of the test of rsa_stream.rs
HelloCommaWorld == <<72, 101, 108, 108, 111, 44, 32, 87, 111, 114, 108, 100, 33>>

ByteStrings ==
    { <<>>, <<72>>, <<72, 105>>, <<72, 105, 33>>, <<72, 10, 105, 10>>, <<0>>, <<72, 0>>,
      <<0, 72>>, <<72, 105, 0, 33>>, <<255, 255, 255>>, HelloCommaWorld }

\* tests::read_and_write_small for any key pair and byte string: write_all
\* through an RSAWriter, then an RSAReader over the lines read to its end
L_rsa_stream ==
    /\ NoCall
    /\ \E keys \in StreamKeys, message \in ByteStrings :
          LET w == RSAWriteAll(public_key(keys), message)
              r == RSAReadToEnd(private_key(keys), w.out)
          IN  lib' = LibCall("rsa_stream", [keys |-> keys, message |-> message],
                  [written |-> w, read |-> r])
    /\ UNCHANGED <<handshakeVars, aes_stream, rsa_reader, mfs>>

\* The public keys handed to an RSAWriter, which takes any PublicKey: moduli
\* around the powers of 256, moduli of key pairs, and the modulus 0
WriterKeys ==
    { [e |-> 3, n |-> n] :
        n \in {0, 1, 2, 35, 143, 255, 256, 257, 3233, 65535, 65536, 65537, 67591} }

\* One write call on a new RSAWriter over an empty sink
L_rsa_write ==
    /\ NoCall
    /\ \E pk \in WriterKeys, buf \in ByteStrings :
          lib' = LibCall("rsa_write", [public_key |-> pk, buf |-> buf], RSAWriter_write(pk, buf))
    /\ UNCHANGED <<handshakeVars, aes_stream, rsa_reader, mfs>>

\* The sizes of the buffer handed to AESReader::read
ReadBufLens == {8, 16, 32}

\* The messages read back over a stream that delivers in pieces
StreamMessages == {HelloWorld, [i \in 1..17 |-> 65 + (i % 26)]}

\* What a second write!(writer, "{}", ..) on the same AESWriter writes: nothing
\* (no second call), or "!!"
SecondMessages == {<<>>, <<33, 33>>}

\* write!(writer, "{}", message) on a new AESWriter, possibly a second write!
\* on it, and a new AESReader over what was written: over the Vec written to
\* (a slice), or at the other end of a stream
A_write ==
    /\ NoCall
    /\ \E manager \in AllManagers, message \in Messages, second \in SecondMessages,
            buf_len \in ReadBufLens, source \in {"slice", "stream"} :
          /\ source = "stream" => (message \in StreamMessages /\ second = <<>>)
          /\ aes_stream' = [NoStream EXCEPT !.pc = "reading", !.key_manager = manager,
                                !.message = message, !.second = second,
                                !.source = source,
                                !.inner = AESWriter_write_all(manager, message)
                                             \o AESWriter_write_all(manager, second),
                                !.buf_len = buf_len]
    /\ UNCHANGED <<handshakeVars, lib, rsa_reader, mfs>>

\* One AESReader::read; the caller stops at the first read that returns 0
A_read ==
    /\ aes_stream.pc = "reading"
    /\ \E got \in InnerReads(aes_stream.source, aes_stream.inner) :
          LET r == AESReader_read(aes_stream.key_manager, aes_stream.inner, got,
                                  aes_stream.internal_buffer, aes_stream.buf_len)
          IN  aes_stream' = [aes_stream EXCEPT
                                !.pc = IF r.n = 0 THEN "eof" ELSE "reading",
                                !.inner = r.inner,
                                !.internal_buffer = r.internal_buffer,
                                !.read = @ \o r.copied,
                                !.last = [got |-> got, left |-> Len(aes_stream.inner),
                                          n |-> r.n]]
    /\ UNCHANGED <<handshakeVars, lib, rsa_reader, mfs>>

\* The reader is dropped
A_drop ==
    /\ aes_stream.pc = "eof"
    /\ aes_stream' = NoStream
    /\ UNCHANGED <<handshakeVars, lib, rsa_reader, mfs>>

\* The sizes of the buffer handed to RSAReader::read
ReaderBufLens == {1, 4}

\* The most times the sink is written again while the reader is open
MaxAppends == 1

\* write_all(message) through an RSAWriter into a sink, and a new RSAReader
\* over what the sink holds
R_open ==
    /\ NoCall
    /\ \E keys \in StreamKeys, message \in ByteStrings, buf_len \in ReaderBufLens :
          rsa_reader' = [NoReader EXCEPT !.pc = "reading", !.keys = keys,
                             !.source = RSAWriteAll(public_key(keys), message).out,
                             !.buf_len = buf_len]
    /\ UNCHANGED <<handshakeVars, lib, aes_stream, mfs>>

\* One RSAReader::read; the caller stops at the first read that returns 0
R_read ==
    /\ rsa_reader.pc = "reading"
    /\ LET r == RSAReader_read(private_key(rsa_reader.keys), rsa_reader.source,
                               rsa_reader.buffer, rsa_reader.buf_len)
       IN  rsa_reader' = [rsa_reader EXCEPT
                             !.pc = IF r.n = 0 THEN "eof" ELSE "reading",
                             !.source = <<>>,
                             !.buffer = r.buffer,
                             !.read = @ \o r.copied,
                             !.last = [buffer |-> rsa_reader.buffer,
                                       source_read |-> r.source_read,
                                       taken |-> r.taken, n |-> r.n]]
    /\ UNCHANGED <<handshakeVars, lib, aes_stream, mfs>>

\* The writer writes one more byte, "!", to the sink between two reads
R_append ==
    /\ rsa_reader.pc = "reading"
    /\ rsa_reader.appends < MaxAppends
    /\ rsa_reader' = [rsa_reader EXCEPT
                          !.source = @ \o RSAWriteAll(public_key(rsa_reader.keys), <<33>>).out,
                          !.appends = @ + 1]
    /\ UNCHANGED <<handshakeVars, lib, aes_stream, mfs>>

\* The reader is dropped
R_drop ==
    /\ rsa_reader.pc = "eof"
    /\ rsa_reader' = NoReader
    /\ UNCHANGED <<handshakeVars, lib, aes_stream, mfs>>

(***************************************************************************)
(* MultiFileReadWrite (src/multi_file_stream.rs): handles that share one  *)
(* transport behind an Arc<RwLock>.  Each handle is used by one thread; a *)
(* call of read, write or flush takes the write lock, runs the operation  *)
(* on the transport and drops the guard when it returns.                   *)
(***************************************************************************)
\* rwlock.read(): the shared lock, which does not wait for other holders
rwlock_read(holder) == TRUE

\* rwlock.write() returns its guard once no other guard is held
rwlock_write(holder) == holder = 0

\* The operation on the transport: a write appends a byte while there is
\* room, a read takes the first byte, a flush leaves it as it is
InnerOp(op, transport, c) ==
    IF op = "write" /\ Len(transport) < MaxTransport THEN Append(transport, c)
    ELSE IF op = "read" /\ transport # <<>> THEN Tail(transport)
    ELSE transport

\* MultiFileReadWrite::new(inner)
M_new ==
    /\ NoCall
    /\ mfs' = [NoShared EXCEPT !.handles = 1]
    /\ UNCHANGED <<handshakeVars, lib, aes_stream, rsa_reader>>

\* clone() of a handle
M_clone ==
    /\ mfs.handles \in 1..(MaxHandles - 1)
    /\ mfs' = [mfs EXCEPT !.handles = @ + 1]
    /\ UNCHANGED <<handshakeVars, lib, aes_stream, rsa_reader>>

\* A thread calls read, write or flush on its handle
M_call(c) ==
    /\ mfs.at[c] = "idle"
    /\ \E op \in {"read", "write", "flush"} :
          mfs' = [mfs EXCEPT !.at[c] = "acquire", !.op[c] = op]
    /\ UNCHANGED <<handshakeVars, lib, aes_stream, rsa_reader>>

\* self.rwlock.write().unwrap() returns the guard
M_lock(c) ==
    /\ mfs.at[c] = "acquire"
    /\ rwlock_write(mfs.holder)
    /\ mfs' = [mfs EXCEPT !.at[c] = "locked", !.holder = c]
    /\ UNCHANGED <<handshakeVars, lib, aes_stream, rsa_reader>>

\* inner.read(buf), inner.write(buf) or inner.flush() begins
M_inner_begin(c) ==
    /\ mfs.at[c] = "locked"
    /\ mfs' = [mfs EXCEPT !.at[c] = "inner", !.running = @ \cup {c}]
    /\ UNCHANGED <<handshakeVars, lib, aes_stream, rsa_reader>>

\* The operation on the transport ends
M_inner_end(c) ==
    /\ mfs.at[c] = "inner"
    /\ mfs' = [mfs EXCEPT !.at[c] = "done", !.running = @ \ {c},
                          !.transport = InnerOp(mfs.op[c], @, c)]
    /\ UNCHANGED <<handshakeVars, lib, aes_stream, rsa_reader>>

\* The call returns: the guard is dropped, which releases the lock
M_return(c) ==
    /\ mfs.at[c] = "done"
    /\ mfs' = [mfs EXCEPT !.at[c] = "idle", !.op[c] = "none", !.holder = 0]
    /\ UNCHANGED <<handshakeVars, lib, aes_stream, rsa_reader>>

\* Every handle is dropped, and the transport with the last
M_drop ==
    /\ mfs.handles > 0
    /\ \A c \in 1..mfs.handles : mfs.at[c] = "idle"
    /\ mfs' = NoShared
    /\ UNCHANGED <<handshakeVars, lib, aes_stream, rsa_reader>>

\* The call has returned and its result is dropped
L_return ==
    /\ lib.op # "idle"
    /\ lib' = LibIdle
    /\ UNCHANGED <<handshakeVars, aes_stream, rsa_reader, mfs>>

LibNext ==
    \/ L_RSAKeys_new
    \/ L_generate_keys
    \/ L_generate_keys_unchecked
    \/ L_modulo_inverse
    \/ L_prime_test
    \/ L_encrypt_decrypt
    \/ L_from_str
    \/ L_propagate_key
    \/ L_aes_encrypt_decrypt
    \/ L_aes_write
    \/ L_rsa_stream
    \/ L_rsa_write
    \/ L_return
    \/ A_write
    \/ A_read
    \/ A_drop
    \/ R_open
    \/ R_read
    \/ R_append
    \/ R_drop
    \/ M_new
    \/ M_clone
    \/ \E c \in 1..mfs.handles : M_call(c)
    \/ \E c \in 1..mfs.handles : M_lock(c)
    \/ \E c \in 1..mfs.handles : M_inner_begin(c)
    \/ \E c \in 1..mfs.handles : M_inner_end(c)
    \/ \E c \in 1..mfs.handles : M_return(c)
    \/ M_drop

LibSpec == LibInit /\ [][LibNext]_vars

(***************************************************************************)
(* Properties.                                                              *)
(***************************************************************************)
\* The positions of a role's reads and writes made in a step
ReadsAt(log, step) == {i \in 1..Len(log.reads) : log.reads[i].step = step}
WritesAt(log, step) == {i \in 1..Len(log.writes) : log.writes[i].step = step}

\* The read yielded a line
GotLine(ev) == ev.res \notin {"readpanic", "ioerr"}

\* The text of s before its first c, all of s when it holds no c
TextBefore(s, c) == IF IndexOf(s, c) = 0 THEN s ELSE SubSeq(s, 1, IndexOf(s, c) - 1)

\* t begins with p
HasPrefix(t, p) == Len(t) >= Len(p) /\ SubSeq(t, 1, Len(p)) = p

\* The position of a step in an order of steps, 0 when it is not in it
PlaceIn(order, step) ==
    IF \E k \in 1..Len(order) : order[k] = step
    THEN CHOOSE k \in 1..Len(order) : order[k] = step
    ELSE 0

\* The writes of a log are made in the order given
WritesFollow(log, order) ==
    /\ \A i \in 1..Len(log.writes) : PlaceIn(order, log.writes[i].step) # 0
    /\ \A i, j \in 1..Len(log.writes) :
          i < j => PlaceIn(order, log.writes[i].step) < PlaceIn(order, log.writes[j].step)

\* In a log, every event b comes after an event a
Precedes(log, a, b) ==
    \A j \in 1..Len(log.trace) :
        log.trace[j] = b => \E i \in 1..(j - 1) : log.trace[i] = a

\* A role has stopped: it has returned or panicked, or it waits in a read
\* that the transport cannot serve (a clear-text read without a whole line,
\* an RSA read while the source has not reported its end).
ReadBlocked(pc, src) ==
    \/ pc \in ClearReads /\ ~ClearReadable(src, ended)
    \/ pc \in SecureReads /\ ~ended

ClientStopped == cpc \in Final \/ ReadBlocked(cpc, chan.s2c)
ServerStopped == spc \in Final \/ ReadBlocked(spc, chan.c2s)

\* C1: when client_handshake and server_handshake run against each other over
\* a duplex channel that nobody closes, both return Ok and the two managers
\* returned are equal: neither call returns an error or panics, and the two
\* are never both stopped (returned, or blocked in a read) unless both have
\* returned Ok with equal managers.
C1_BothReturnOkWithEqualKeys ==
    (mode = "duplex") =>
        /\ cpc \notin {"err", "panic"}
        /\ spc \notin {"err", "panic"}
        /\ (ClientStopped /\ ServerStopped) => (cpc = "ok" /\ spc = "ok" /\ caes = saes)

C3_AckMismatchEndsClient ==
    \A i \in ReadsAt(clog, "receive_ack") :
        Trim(clog.reads[i].data) # first_nonce =>
            /\ cpc = "err"
            /\ Len(clog.writes) = 1
            /\ clog.writes[1].data = handshake_start_frame(first_nonce)
            /\ \A j \in 1..Len(clog.writes) :
                  ~HasPrefix(clog.writes[j].data, RSA_PREFIX \o <<":">>)

C3_Witness ==
    /\ cpc = "err"
    /\ \E i \in ReadsAt(clog, "receive_ack") :
          /\ Trim(clog.reads[i].data) # first_nonce
          /\ Trim(clog.reads[i].data) # <<>>

\* C4: server_handshake writes SUCCESS only if the line it read in
\* client_repeat_correct equals, trimmed, its nonce n3; on any other line it
\* returns an error, writes no SUCCESS and returns no AES manager.
C4_SuccessOnlyAfterNonceRepeat ==
    /\ WritesAt(slog, "write_success") # {} =>
          \E i \in ReadsAt(slog, "client_repeat_correct") :
              GotLine(slog.reads[i]) /\ Trim(slog.reads[i].data) = snonce
    /\ \A j \in 1..Len(slog.writes) :
          slog.writes[j].data = SUCCESS \o <<NL>> /\ slog.writes[j].step # "server_ack" =>
              slog.writes[j].step = "write_success"
    /\ \A i \in ReadsAt(slog, "client_repeat_correct") :
          (GotLine(slog.reads[i]) /\ Trim(slog.reads[i].data) # snonce) =>
              /\ spc = "err"
              /\ WritesAt(slog, "write_success") = {}
              /\ saes = NoManager

C4_Witness ==
    /\ spc = "err"
    /\ \E i \in ReadsAt(slog, "client_repeat_correct") :
          /\ GotLine(slog.reads[i])
          /\ Trim(slog.reads[i].data) # snonce
          /\ Trim(slog.reads[i].data) # <<>>

\* C5: client_handshake writes the AES_KEY frame only after it has read a
\* line that is, trimmed, SUCCESS; on any other line it returns an error,
\* writes no AES_KEY frame and returns no AES manager.
C5_AesKeyOnlyAfterSuccess ==
    /\ \A j \in 1..Len(clog.writes) :
          HasPrefix(clog.writes[j].data, AES_KEY_PREFIX \o <<":">>) =>
              /\ clog.writes[j].step = "begin_aes_encryption_client"
              /\ \E i \in ReadsAt(clog, "encryption_successful") :
                    GotLine(clog.reads[i]) /\ Trim(clog.reads[i].data) = SUCCESS
    /\ Precedes(clog, <<"read", "encryption_successful">>,
                       <<"write", "begin_aes_encryption_client">>)
    /\ \A i \in ReadsAt(clog, "encryption_successful") :
          (GotLine(clog.reads[i]) /\ Trim(clog.reads[i].data) # SUCCESS) =>
              /\ cpc = "err"
              /\ WritesAt(clog, "begin_aes_encryption_client") = {}

C5_Witness ==
    /\ cpc = "err"
    /\ \E i \in ReadsAt(clog, "encryption_successful") :
          /\ GotLine(clog.reads[i])
          /\ Trim(clog.reads[i].data) # SUCCESS
          /\ Trim(clog.reads[i].data) # <<>>

\* C6: in receive_and_repeat, if the first token of the reply differs from
\* the client's nonce n2 or a token is missing, the client returns an error
\* and writes nothing; otherwise it writes the reply's second token and a
\* newline.
C6_ChallengeReply ==
    \A i \in ReadsAt(clog, "receive_and_repeat") :
        GotLine(clog.reads[i]) =>
            LET toks == SplitWhitespace(clog.reads[i].data)
            IN  IF Len(toks) < 2 \/ toks[1] # second_nonce
                THEN /\ cpc = "err"
                     /\ WritesAt(clog, "receive_and_repeat") = {}
                     /\ clog.writes[Len(clog.writes)].step = "secure_handshake_start"
                ELSE \E j \in WritesAt(clog, "receive_and_repeat") :
                        clog.writes[j].data = toks[2] \o <<NL>>

C6_Witness ==
    /\ cpc = "err"
    /\ \E i \in ReadsAt(clog, "receive_and_repeat") :
          /\ GotLine(clog.reads[i])
          /\ Len(SplitWhitespace(clog.reads[i].data)) >= 2
          /\ SplitWhitespace(clog.reads[i].data)[1] # second_nonce

\* C7: each role's frames reach the transport in the order of the protocol
\* (client: COM_BEGIN, RSA key, SECOP_BEGIN, echo of n3, AES_KEY; server: echo
\* of n1, RSA key, challenge, SUCCESS); the client writes its RSA: line before
\* it reads the peer's, the server reads the peer's before it writes its own.
C7_FramesInProtocolOrder ==
    /\ WritesFollow(clog, <<"handshake_start", "send_public_key", "secure_handshake_start",
                            "receive_and_repeat", "begin_aes_encryption_client">>)
    /\ WritesFollow(slog, <<"server_ack", "send_public_key", "secure_server_ack",
                            "write_success">>)
    /\ \A j \in WritesAt(clog, "handshake_start") :
          HasPrefix(clog.writes[j].data, HANDSHAKE_START_PHRASE \o <<" ">>)
    /\ \A log \in {clog, slog} :
          \A j \in WritesAt(log, "send_public_key") :
              HasPrefix(log.writes[j].data, RSA_PREFIX \o <<":">>)
    /\ \A j \in WritesAt(clog, "secure_handshake_start") :
          HasPrefix(clog.writes[j].data, SECRET_HANDSHAKE_START_PHRASE \o <<" ">>)
    /\ \A j \in WritesAt(clog, "begin_aes_encryption_client") :
          HasPrefix(clog.writes[j].data, AES_KEY_PREFIX \o <<":">>)
    /\ \A j \in WritesAt(slog, "write_success") : slog.writes[j].data = SUCCESS \o <<NL>>
    /\ Precedes(clog, <<"write", "send_public_key">>, <<"read", "receive_public_key">>)
    /\ Precedes(slog, <<"read", "receive_public_key">>, <<"write", "send_public_key">>)

C7_Witness ==
    /\ spc = "ok"
    /\ [j \in 1..Len(slog.writes) |-> slog.writes[j].step]
           = <<"server_ack", "send_public_key", "secure_server_ack", "write_success">>

\* C8: for every line the server reads in unsecure::server_ack: if its first
\* token is COM_BEGIN the server writes the second token and a newline; for
\* every other line, an empty one included, it writes nothing and returns
\* success.
C8_ServerAckNeverFails ==
    \A i \in ReadsAt(slog, "server_ack") :
        LET toks == SplitWhitespace(slog.reads[i].data)
        IN  IF Len(toks) >= 1 /\ toks[1] = HANDSHAKE_START_PHRASE
            THEN /\ Len(toks) >= 2
                 /\ \E j \in WritesAt(slog, "server_ack") :
                       slog.writes[j].data = toks[2] \o <<NL>>
            ELSE /\ WritesAt(slog, "server_ack") = {}
                 /\ slog.reads[i].res = "no"

\* C9: if the first token of the line the server reads in secure::server_ack
\* is not SECOP_BEGIN, the server writes no challenge and the handshake does
\* not advance: it reads no nonce repeat, writes no SUCCESS, reads no AES key.
C9_NoAdvanceWithoutSecopBegin ==
    \A i \in ReadsAt(slog, "secure_server_ack") :
        LET toks == SplitWhitespace(slog.reads[i].data)
        IN  (GotLine(slog.reads[i]) /\ Len(toks) >= 1
                /\ toks[1] # SECRET_HANDSHAKE_START_PHRASE) =>
                /\ WritesAt(slog, "secure_server_ack") = {}
                /\ ReadsAt(slog, "client_repeat_correct") = {}
                /\ WritesAt(slog, "write_success") = {}
                /\ ReadsAt(slog, "get_aes_key") = {}

\* C10, as stated: receive_public_key returns an error, and no public key,
\* for every line (with a ':') whose text before the first ':' is not exactly
\* RSA.
C10_PrefixMustBeRSA ==
    /\ \A i \in ReadsAt(clog, "receive_public_key") :
          (IndexOf(clog.reads[i].data, ":") # 0
              /\ TextBefore(clog.reads[i].data, ":") # RSA_PREFIX) =>
              clog.reads[i].res = "err" /\ server_public_key = NoKey
    /\ \A i \in ReadsAt(slog, "receive_public_key") :
          (IndexOf(slog.reads[i].data, ":") # 0
              /\ TextBefore(slog.reads[i].data, ":") # RSA_PREFIX) =>
              slog.reads[i].res = "err" /\ client_key = NoKey

\* C10, amended: receive_public_key returns an error, and no public key, for
\* every line whose text before the first ':' (all of it when it has none),
\* taken after the whitespace around the line is trimmed away, is not exactly
\* RSA.
C10_TrimmedPrefixMustBeRSA ==
    /\ \A i \in ReadsAt(clog, "receive_public_key") :
          TextBefore(Trim(clog.reads[i].data), ":") # RSA_PREFIX =>
              /\ clog.reads[i].res = "err"
              /\ cpc = "err"
              /\ server_public_key = NoKey
    /\ \A i \in ReadsAt(slog, "receive_public_key") :
          TextBefore(Trim(slog.reads[i].data), ":") # RSA_PREFIX =>
              /\ slog.reads[i].res = "err"
              /\ spc = "err"
              /\ client_key = NoKey

C10_Witness ==
    \E log \in {clog, slog} :
        \E i \in ReadsAt(log, "receive_public_key") :
            /\ IndexOf(log.reads[i].data, ":") # 0
            /\ TextBefore(Trim(log.reads[i].data), ":") # RSA_PREFIX
            /\ log.reads[i].res = "err"

\* C18: for every key triple the library accepts (returned by generate_keys
\* or by RSAKeys::new) and every integer x below the modulus,
\* decrypt(encrypt(Decrypted(x))) is Decrypted(x).
C18_EncryptDecryptRoundTrip ==
    (lib.op = "encrypt_decrypt" /\ lib.in.message.variant = "Decrypted") =>
        lib.out.round_trip = lib.in.message

\* C19: encrypt returns an Encrypted message, and decrypt a Decrypted one,
\* unchanged, so that encrypting twice is encrypting once and decrypting
\* twice is decrypting once.
C19_WrongVariantIsNoOp ==
    lib.op = "encrypt_decrypt" =>
        /\ lib.in.message.variant = "Encrypted" => lib.out.encrypted = lib.in.message
        /\ lib.in.message.variant = "Decrypted" => lib.out.decrypted = lib.in.message
        /\ lib.out.encrypted_twice = lib.out.encrypted
        /\ lib.out.decrypted_twice = lib.out.decrypted

C19_Witness ==
    /\ lib.op = "encrypt_decrypt"
    /\ lib.in.message = Encrypted(3)
    /\ lib.in.keys.n = 35
    /\ lib.out.encrypted = Encrypted(3)
    /\ lib.out.decrypted # lib.in.message

\* The validity predicate: (2^e mod n)^d mod n = 2
PredicateHolds(keys) == ModPow(ModPow(2, keys.e, keys.n), keys.d, keys.n) = 2

C11_KeyLineRoundTrip ==
    /\ \A j \in WritesAt(clog, "send_public_key") :
          clog.writes[j].data = KeyLine(ckeys.n, ckeys.e)
    /\ \A j \in WritesAt(slog, "send_public_key") :
          slog.writes[j].data = KeyLine(skeys.n, skeys.e)
    /\ mode = "duplex" =>
          /\ \A i \in ReadsAt(slog, "receive_public_key") :
                slog.reads[i].res = "ok" /\ client_key = public_key(ckeys)
          /\ \A i \in ReadsAt(clog, "receive_public_key") :
                clog.reads[i].res = "ok" /\ server_public_key = public_key(skeys)

\* C12: the text the client sends in key delivery is AES_KEY:<hex> and a
\* newline; the server accepts the line it reads only if the text before ':'
\* is AES_KEY, and builds its manager from the hexadecimal text after it.
C12_KeyDeliveryFrame ==
    /\ \A j \in WritesAt(clog, "begin_aes_encryption_client") :
          clog.writes[j].data = AES_KEY_PREFIX \o <<":">> \o parsable_string(caes) \o <<NL>>
    /\ \A i \in ReadsAt(slog, "get_aes_key") :
          slog.reads[i].res = "ok" =>
              /\ TextBefore(Trim(slog.reads[i].data), ":") = AES_KEY_PREFIX
              /\ saes = AESManagerFromStr(SplitOn(Trim(slog.reads[i].data), ":")[2]).manager

\* C13: for every AES manager k, AESManager::from_str(k.parsable_string())
\* succeeds and yields a manager of the key size and the key bytes of k, which
\* decrypts a block k encrypted.
C13_ManagerRoundTrip ==
    lib.op = "propagate_key" =>
        /\ lib.out.parsed.ok
        /\ lib.out.parsed.manager = lib.in
        /\ lib.out.decrypted = ProbeBlock

\* The number of bytes a run of hexadecimal digits decodes to: two digits a
\* byte from the first digit that is not 0, one byte for the number 0
DecodedLength(str) ==
    LET digits == Len(StripLeading(str, "0"))
    IN  IF digits = 0 THEN 1 ELSE (digits + 1) \div 2

AllHexDigits(str) == str # <<>> /\ \A i \in 1..Len(str) : str[i] \in {HexChars[k] : k \in 1..16}
                                      \cup {"A", "B", "C", "D", "E", "F"}

\* C14: AESManager::from_str returns a parse error and no manager when the
\* string is no hexadecimal number or decodes to a number of bytes other than
\* 16, 24 or 32; when it succeeds, the key size is 8 times the number of
\* bytes decoded.
C14_FromStrErrors ==
    lib.op = "from_str" =>
        /\ (~AllHexDigits(lib.in) \/ DecodedLength(lib.in) \notin {16, 24, 32}) =>
              (~lib.out.ok /\ lib.out.manager = NoManager)
        /\ lib.out.ok =>
              /\ lib.out.manager.size = 8 * DecodedLength(lib.in)
              /\ Len(lib.out.manager.key_value) = DecodedLength(lib.in)
              /\ lib.out.manager.size \in {128, 192, 256}

C14_Witness ==
    /\ lib.op = "from_str"
    /\ AllHexDigits(lib.in)
    /\ DecodedLength(lib.in) = 31
    /\ ~lib.out.ok

\* The bytes of m and zero bytes up to the next multiple of 16
ZeroPadded(m) == m \o Rep(0, (16 - (Len(m) % 16)) % 16)

\* C15: encrypt(m) yields ceil(len(m) / 16) blocks, in the order of m, and
\* decrypt(encrypt(m)) is m followed by zero bytes up to the next multiple of
\* 16: m itself when its length is a multiple of 16, the empty one included.
C15_DecryptOfEncryptIsPadded ==
    lib.op = "aes_encrypt_decrypt" =>
        /\ Len(lib.out.blocks) = (Len(lib.in.message) + 15) \div 16
        /\ \A i \in 1..Len(lib.out.blocks) :
              /\ Len(lib.out.blocks[i]) = 16
              /\ decrypt_block(lib.in.manager.key_value, lib.out.blocks[i])
                    = SubSeq(ZeroPadded(lib.in.message), 16 * i - 15, 16 * i)
        /\ lib.out.decrypted = ZeroPadded(lib.in.message)
        /\ Len(lib.in.message) % 16 = 0 => lib.out.decrypted = lib.in.message

C15_Witness ==
    /\ lib.op = "aes_encrypt_decrypt"
    /\ Len(lib.in.message) = 17
    /\ Len(lib.out.blocks) = 2
    /\ Len(lib.out.decrypted) = 32

\* C16: a message without a zero byte, written through an AESWriter with one
\* write call into a Vec and read back from it (each read of the source
\* returns a whole block) through an AESReader of the same key with a
\* buffer of at least 16 bytes until a read returns 0, comes back as it was
\* written: the reads return its bytes in order and nothing of the padding.
C16_StreamRoundTrip ==
    (aes_stream.pc # "idle" /\ aes_stream.source = "slice" /\ aes_stream.second = <<>>
        /\ aes_stream.buf_len >= 16
        /\ \A i \in 1..Len(aes_stream.message) : aes_stream.message[i] # 0) =>
        /\ Len(aes_stream.read) <= Len(aes_stream.message)
        /\ aes_stream.read = SubSeq(aes_stream.message, 1, Len(aes_stream.read))
        /\ aes_stream.pc = "eof" => aes_stream.read = aes_stream.message

C16_Witness ==
    /\ aes_stream.pc = "eof"
    /\ aes_stream.source = "slice"
    /\ aes_stream.second = <<>>
    /\ aes_stream.buf_len = 16
    /\ Len(aes_stream.message) = 17
    /\ aes_stream.read = aes_stream.message
    /\ aes_stream.internal_buffer # <<>>

\* C17: for every key pair and every byte string written completely through
\* an RSAWriter, an RSAReader with the private key, read to the end of the
\* lines written, yields the byte string.
C17_RsaStreamRoundTrip ==
    lib.op = "rsa_stream" =>
        /\ lib.out.written.res = "ok"
        /\ lib.out.read.res = "ok"
        /\ lib.out.read.bytes = lib.in.message

\* C21: every key triple generate_keys_unchecked returns satisfies valid(),
\* whatever primes p and q and exponent e it drew, the draw p = q included.
C21_UncheckedKeysAreValid ==
    lib.op = "generate_keys_unchecked" => valid(lib.out)

\* The greatest common divisor by its definition
GreatestCommonDivisor(a, b) ==
    IF a = 0 /\ b = 0 THEN 0
    ELSE CHOOSE g \in 1..(a + b) :
            /\ a % g = 0 /\ b % g = 0
            /\ \A h \in 1..(a + b) : (a % h = 0 /\ b % h = 0) => h <= g

\* What C22 says apart from the product: modulo_inverse(a, m) is absent
\* exactly when gcd(a, m) # 1, a result lies in [0, m), and egcd returns
\* g = gcd(a, m) with x and y such that a * x + m * y = g.
InverseCallAgrees ==
    /\ lib.out.inverse.some <=> GreatestCommonDivisor(lib.in.a, lib.in.m) = 1
    /\ lib.out.inverse.some => lib.out.inverse.v \in 0..(lib.in.m - 1)
    /\ lib.out.egcd.gcd = GreatestCommonDivisor(lib.in.a, lib.in.m)
    /\ lib.in.a * lib.out.egcd.x + lib.in.m * lib.out.egcd.y = lib.out.egcd.gcd

\* C22 as stated: for a >= 0 and m >= 1, modulo_inverse(a, m) is absent iff
\* gcd(a, m) # 1; a result r lies in [0, m) and (a * r) mod m = 1; egcd
\* returns g = gcd(a, m) with a * x + m * y = g.
C22_InverseProductIsOne ==
    lib.op = "modulo_inverse" =>
        /\ InverseCallAgrees
        /\ lib.out.inverse.some => (lib.in.a * lib.out.inverse.v) % lib.in.m = 1

\* C22 amended: as above, with (a * r) mod m = 1 mod m, which is 1 for
\* m >= 2 and 0 for m = 1, where the result is r = 0.
C22_InverseProductIsOneModM ==
    lib.op = "modulo_inverse" =>
        /\ InverseCallAgrees
        /\ lib.out.inverse.some =>
              (lib.in.a * lib.out.inverse.v) % lib.in.m = 1 % lib.in.m

C22_Witness ==
    /\ lib.op = "modulo_inverse"
    /\ lib.in = [a |-> 3, m |-> 11]
    /\ lib.out.inverse = Some(4)
    /\ lib.out.egcd.x > 0 /\ lib.out.egcd.y < 0

\* C23: is_prime_probabilistic(n, 128) returns a result and the result is
\* that of is_prime(n), for every candidate of the key sizes and every choice
\* of bases: false on 4, 9, 15 and 25, true on 5, 7, 11, 13 and 17.
C23_PrimeTestAgrees ==
    lib.op = "prime_test" =>
        lib.out.probabilistic = (IF lib.out.is_prime THEN "true" ELSE "false")

C28_WriteConsumesAndWritesOneLine ==
    (lib.op = "rsa_write" /\ lib.out.res = "ok") =>
        /\ lib.out.index \in {Len(lib.in.buf), max_message_size(lib.in.public_key)}
        /\ lib.out.index <= Len(lib.in.buf)
        /\ lib.out.index <= max_message_size(lib.in.public_key)
        /\ lib.out.written =
              ToDec(rsa_encrypt(lib.out.big_uint, lib.in.public_key)) \o <<NL>>
        /\ IndexOf(lib.out.written, NL) = Len(lib.out.written)
        /\ lib.in.buf # <<>> => lib.out.index >= 1

\* C24: every read, write and flush through any clone of a
\* MultiFileReadWrite holds the exclusive lock on the shared transport from
\* before its operation on the transport begins until the call returns; no
\* two operations run on the transport at the same time; a handle that is
\* not in a call, or still waits for the lock, does not hold it.
C24_OperationsHoldExclusiveLock ==
    /\ \A c \in 1..MaxHandles :
          /\ mfs.at[c] \in {"locked", "inner", "done"} => mfs.holder = c
          /\ mfs.at[c] \in {"idle", "acquire"} => mfs.holder # c
    /\ Cardinality(mfs.running) <= 1
    /\ mfs.running \subseteq {mfs.holder}

C24_Witness ==
    \E c, d \in 1..MaxHandles :
        /\ c # d
        /\ mfs.at[c] = "inner" /\ mfs.op[c] = "write"
        /\ mfs.at[d] = "acquire" /\ mfs.op[d] = "read"
        /\ mfs.transport # <<>>

\* C29: RSAReader::read reads from the source only when its queue is empty;
\* a call made while the queue holds bytes serves them without touching the
\* source.
C29_SourceReadOnlyOnEmptyQueue ==
    (rsa_reader.pc # "idle" /\ rsa_reader.last.buffer # <<>>) =>
        /\ ~rsa_reader.last.source_read
        /\ rsa_reader.last.taken = <<>>

\* C30: every AESReader::read that is not a read of 0 bytes at the end of the
\* source consumes exactly 16 bytes of the source and decrypts one complete
\* block, also when the source delivers the 16 bytes in shorter pieces: no
\* block is decrypted from fewer than 16 received bytes.
C30_ReadsWholeBlocks ==
    (aes_stream.pc # "idle" /\ aes_stream.last.left # 0) =>
        /\ aes_stream.last.got = 16
        /\ Len(aes_stream.inner) = aes_stream.last.left - 16

\* The read met the end of the stream before any byte of the frame
EndOfStream(ev) == GotLine(ev) /\ ev.data = <<>>

\* C25: if the transport reaches its end before a frame that a step expects,
\* at any step of client_handshake or server_handshake, the call returns an
\* error: it does not panic and returns no AES manager.
C25_EndOfStreamReturnsError ==
    /\ \A i \in 1..Len(clog.reads) :
          EndOfStream(clog.reads[i]) => cpc = "err"
    /\ \A i \in 1..Len(slog.reads) :
          EndOfStream(slog.reads[i]) =>
              (spc = "err" /\ saes = NoManager)

\* The frame lacks a token its step expects: COM_BEGIN or SECOP_BEGIN with no
\* nonce, a line RSA or AES_KEY with no ':', a key line with one number
LacksToken(ev) ==
    \/ ev.step = "server_ack" /\ SplitWhitespace(ev.data) = <<HANDSHAKE_START_PHRASE>>
    \/ ev.step = "secure_server_ack"
          /\ SplitWhitespace(ev.data) = <<SECRET_HANDSHAKE_START_PHRASE>>
    \/ ev.step = "receive_public_key" /\ Trim(ev.data) = RSA_PREFIX
    \/ ev.step = "receive_public_key"
          /\ Len(SplitOn(Trim(ev.data), ":")) = 2
          /\ SplitOn(Trim(ev.data), ":")[1] = RSA_PREFIX
          /\ Len(SplitWhitespace(SplitOn(Trim(ev.data), ":")[2])) = 1
    \/ ev.step = "get_aes_key" /\ Trim(ev.data) = AES_KEY_PREFIX

\* C26: a received frame that lacks an expected token makes the step that
\* receives it return an error: the handshake returns the error and does not
\* crash.
C26_MissingTokenReturnsError ==
    /\ \A i \in 1..Len(clog.reads) :
          (GotLine(clog.reads[i]) /\ LacksToken(clog.reads[i])) =>
              cpc = "err"
    /\ \A i \in 1..Len(slog.reads) :
          (GotLine(slog.reads[i]) /\ LacksToken(slog.reads[i])) =>
              spc = "err"

\* The 16-byte blocks of a run of bytes whose length is a multiple of 16
BlocksOf(bytes) == [i \in 1..(Len(bytes) \div 16) |-> SubSeq(bytes, 16 * i - 15, 16 * i)]

\* C31: AESWriter::write(buf) writes to the sink exactly the
\* 16 * ceil(len(buf) / 16) bytes of the blocks of encrypt(buf), in order, and
\* returns len(buf); each call is padded on its own: after two calls the sink
\* holds the blocks of the first buffer, zero-padded, and then those of the
\* second, zero-padded.
C31_WriteWritesPaddedBlocks ==
    lib.op = "aes_write" =>
        /\ lib.out.returned = <<Len(lib.in.first), Len(lib.in.second)>>
        /\ Len(lib.out.inner) = 16 * ((Len(lib.in.first) + 15) \div 16)
                                  + 16 * ((Len(lib.in.second) + 15) \div 16)
        /\ lib.out.inner = Concat(AESManager_encrypt(lib.in.manager, lib.in.first))
                              \o Concat(AESManager_encrypt(lib.in.manager, lib.in.second))
        /\ AESManager_decrypt(lib.in.manager, BlocksOf(lib.out.inner))
              = ZeroPadded(lib.in.first) \o ZeroPadded(lib.in.second)

C31_Witness ==
    /\ lib.op = "aes_write"
    /\ lib.in.first \o lib.in.second = HelloWorld
    /\ Len(lib.in.first) = 5
    /\ Len(lib.out.inner) = 32
    /\ lib.out.inner # Concat(AESManager_encrypt(lib.in.manager, HelloWorld))

\* No two writes of a log without a read between them
WritesAlternate(log) ==
    \A j \in 1..(Len(log.trace) - 1) :
        ~(log.trace[j][1] = "write" /\ log.trace[j + 1][1] = "write")

\* The lines a direction of the channel holds
LinesIn(src) == Len(SourceLines(src))

C33_NoPlaintextWithheld ==
    (aes_stream.pc = "eof" /\ aes_stream.source = "slice"
        /\ \A i \in 1..Len(aes_stream.message) : aes_stream.message[i] # 0) =>
        /\ aes_stream.inner = <<>>
        /\ \A i \in 1..Len(aes_stream.internal_buffer) : aes_stream.internal_buffer[i] = 0
        /\ aes_stream.read = aes_stream.message \o aes_stream.second

\* What a read step can still read of a source: its characters for a
\* clear-text step, the characters its lines decrypt to for an RSA-framed one
Readable(step, sk, src) ==
    IF step \in ClearReads THEN src
    ELSE [k \in 1..Len(RSAReadToEnd(sk, src).bytes) |-> ChrOf(RSAReadToEnd(sk, src).bytes[k])]

\* A read step of a role that yielded a line took that line from the front of
\* what was readable and left everything behind it readable
KeepsRest(before, after, sk, src_before, src_after) ==
    (Len(after.reads) = Len(before.reads) + 1 /\ GotLine(after.reads[Len(after.reads)])) =>
        LET ev == after.reads[Len(after.reads)]
            was == Readable(ev.step, sk, src_before)
        IN  Readable(ev.step, sk, src_after) = SubSeq(was, Len(ev.data) + 1, Len(was))

\* C34: no received byte is dropped between handshake steps.  If the peer has
\* sent more than the line a step consumes before the step reads, what
\* follows the line remains readable for the next read step of the same
\* handshake, in the clear-text steps and in the RSA-framed steps.
C34_NoByteDroppedBetweenSteps ==
    [][ /\ KeepsRest(clog, clog', private_key(ckeys), chan.s2c, chan'.s2c)
        /\ KeepsRest(slog, slog', private_key(skeys), chan.c2s, chan'.c2s) ]_vars

====
